---- MODULE Spec2Model ----
(***************************************************************************)
(* A model of the compiler of viafanasyev/compiler: the symbol table, the *)
(* tokenizer, the parser, the AST optimizers, the stack-machine code      *)
(* generator and the driver. Each part has its own specification         *)
(* (SpecSym, SpecTok, SpecParse, SpecOpt, SpecGen, SpecRun) over one set  *)
(* of variables; a specification leaves the variables of the other parts *)
(* at their initial values.                                               *)
(***************************************************************************)
EXTENDS Integers, Sequences, FiniteSets, TLC

VARIABLES
    variables,                  \* SymbolTable::variables, front of the list first
    nextLocalVariableAddress,   \* SymbolTable::nextLocalVariableAddress
    functions,                  \* SymbolTable::functions
    nextId,                     \* Label::nextId
    lastCall,                   \* the last symbol table call and how it ended
    enterSnapshots,             \* what every name resolved to when each open scope was entered
    declCount,                  \* declarations made so far (the next origin position)
    expression,                 \* tokenizer: the characters not yet read
    currentTokenOrigin,         \* tokenizer: line and column of the next character
    tokens,                     \* tokenizer: the tokens emitted so far
    tokenizeResult,             \* tokenizer: "running", "returned" or "SyntaxError"
    parseResult,                \* parser: "idle", "returned" or the message of the SyntaxError
    ast,                        \* main: ASTRoot
    optimizeRuns,               \* main: how many times optimizer->optimize(ASTRoot) has run
    program,                    \* codegen: the function definitions visited so far
    out,                        \* codegen: the lines written to assemblyFile
    codegenResult,              \* codegen: "constructed", "walking", "returned" or the exception thrown
    pc,                         \* machine: index in out of the next instruction
    stack,                      \* machine: the value stack, top last
    ram,                        \* machine: RAM, address -> value
    registers,                  \* machine: AX, BX, CX
    callStack,                  \* machine: return addresses
    frameBases,                 \* AX at the entry of every active function, innermost last
    output,                     \* machine: the values written by OUT
    lastAccess,                 \* the last RAM access of a variable
    machineState,               \* machine: "off", "running", "halted"
    mainResult                  \* main: how the process ended, its exit code, its error stream

symVars == <<variables, nextLocalVariableAddress, functions, nextId, lastCall,
             enterSnapshots, declCount>>

tokVars == <<expression, currentTokenOrigin, tokens, tokenizeResult, parseResult>>

optVars == <<ast, optimizeRuns>>

genVars == <<program, out, codegenResult>>

machineVars == <<pc, stack, ram, registers, callStack, frameBases, output, lastAccess,
                 machineState>>

runVars == <<machineVars, mainResult>>

vars == <<symVars, tokVars, optVars, genVars, runVars>>

(***************************************************************************)
(* Program constants                                                       *)
(***************************************************************************)
VARIABLE_SIZE_IN_BYTES == 8
UCHAR_MODULUS == 256
MAX_ID_LENGTH == 256

\* the null pointer, for a label or an internal name that is not set
NULL == "<nullptr>"
INTERNAL_ORIGIN == -1

(***************************************************************************)
(* Bounds                                                                  *)
(***************************************************************************)
MaxScopeDepth == 4
MaxDecls == 3

VarNames == {"x", "y"}
SymFuncNames == {"main", "f", "read", "print", "sqrt"}
SymArgNumbers == {0, 1, 255}

MaxInputLen == 3

(***************************************************************************)
(* Symbols                                                                 *)
(***************************************************************************)
VOID == "void"
DOUBLE == "double"

VariableSymbol(address, originPos) ==
    [address |-> address, originPos |-> originPos]

\* the constructor for non-internal functions: it makes a Label named after the function
UserFunctionSymbol(functionName, returnType, argumentsNumber, originPos, id) ==
    [label |-> [name |-> functionName, id |-> id],
     internalName |-> NULL,
     returnType |-> returnType,
     argumentsNumber |-> argumentsNumber,
     originPos |-> originPos]

\* the constructor for internal functions: no label, the opcode as internal name
InternalFunctionSymbol(functionName, returnType, argumentsNumber) ==
    [label |-> [name |-> NULL, id |-> -1],
     internalName |-> functionName,
     returnType |-> returnType,
     argumentsNumber |-> argumentsNumber,
     originPos |-> INTERNAL_ORIGIN]

isInternal(symbol) == symbol.internalName # NULL
isVoid(symbol) == symbol.returnType = VOID

EmptyScope == [n \in {} |-> VariableSymbol(0, 0)]

\* SymbolTable::SymbolTable(): one outermost scope and the three internal functions
InitialVariables == <<EmptyScope>>
InitialFunctions ==
    [n \in {"read", "print", "sqrt"} |->
        CASE n = "read"  -> InternalFunctionSymbol("IN", DOUBLE, 0)
          [] n = "print" -> InternalFunctionSymbol("OUT", VOID, 1)
          [] n = "sqrt"  -> InternalFunctionSymbol("SQRT", DOUBLE, 1)]

(***************************************************************************)
(* Lookups                                                                 *)
(***************************************************************************)
\* the scopes that declare name, front first
ScopesWith(scopes, name) == {i \in 1..Len(scopes) : name \in DOMAIN scopes[i]}

hasVariableIn(scopes, name) == ScopesWith(scopes, name) # {}
hasVariable(name) == hasVariableIn(variables, name)

FirstScopeWith(scopes, name) ==
    CHOOSE i \in ScopesWith(scopes, name) : \A j \in ScopesWith(scopes, name) : i <= j

\* defined when hasVariableIn(scopes, name); the code throws std::out_of_range otherwise
getVariableByNameIn(scopes, name) == scopes[FirstScopeWith(scopes, name)][name]


hasFunctionIn(table, name) == name \in DOMAIN table
hasFunction(name) == hasFunctionIn(functions, name)
getFunctionByName(name) == functions[name]

SetMax(S) == CHOOSE m \in S : \A k \in S : k <= m

(***************************************************************************)
(* Symbol table operations, as functions of the table                     *)
(***************************************************************************)
\* a faulty variant: the redefinition check looks at every scope
AddVariableThrows_AnyScope(scopes, name) == hasVariableIn(scopes, name)

\* addVariable throws RedefinitionError when the front scope has the name
AddVariableThrows(scopes, name) == name \in DOMAIN scopes[1]

ScopeWith(scope, name, symbol) ==
    [n \in DOMAIN scope \cup {name} |-> IF n = name THEN symbol ELSE scope[n]]

AddVariableScopes(scopes, next, name, originPos) ==
    <<ScopeWith(scopes[1], name, VariableSymbol(next, originPos))>> \o Tail(scopes)

AddVariableNext(next) == next + VARIABLE_SIZE_IN_BYTES

EnterBlockScopes(scopes) == <<EmptyScope>> \o scopes

LeaveBlockScopes(scopes) == Tail(scopes)

\* the names leaveBlock frees: those of the scope it pops
LeaveBlockFreed(scopes) == DOMAIN scopes[1]

\* the address restored by leaveBlock, from the scope that becomes the front
LeaveBlockNext(scopes) ==
    LET front == Tail(scopes)[1]
        maxLocalVariableAddress ==
            SetMax({0} \cup {front[n].address : n \in DOMAIN front})
    IN  maxLocalVariableAddress + VARIABLE_SIZE_IN_BYTES

\* a faulty variant: the redefinition check skips the internal functions
AddFunctionThrows_UserOnly(table, name) ==
    hasFunctionIn(table, name) /\ ~isInternal(table[name])

AddFunctionThrows(table, name) == hasFunctionIn(table, name)

AddFunctionTable(table, name, returnType, argumentsNumber, originPos, id) ==
    [n \in DOMAIN table \cup {name} |->
        IF n = name
        THEN UserFunctionSymbol(name, returnType, argumentsNumber, originPos, id)
        ELSE table[n]]

(***************************************************************************)
(* What a name resolves to: the symbol, or NoSymbol when undeclared       *)
(***************************************************************************)
NoSymbol == VariableSymbol(-1, -1)

Resolve(scopes, name) ==
    IF hasVariableIn(scopes, name) THEN getVariableByNameIn(scopes, name) ELSE NoSymbol

Snapshot(scopes) == [n \in VarNames |-> Resolve(scopes, n)]

\* a call of the symbol table: its arguments, the names it freed, how it ended
Call(op, name, argumentsNumber, freed, result) ==
    [op |-> op, name |-> name, argumentsNumber |-> argumentsNumber,
     freed |-> freed, result |-> result]

SymIdle ==
    /\ variables = InitialVariables
    /\ nextLocalVariableAddress = 0
    /\ functions = InitialFunctions
    /\ nextId = 0
    /\ lastCall = Call("SymbolTable", NULL, 0, {}, "ok")
    /\ enterSnapshots = <<>>
    /\ declCount = 0

(***************************************************************************)
(* AST nodes                                                               *)
(***************************************************************************)
\* the origin of a node made without one
NoOrigin == [line |-> 0, column |-> 0]

\* a node: its type, the name or operator it carries, its value, its children,
\* and the origin (line, column) of the token it was made from
Node(type, name, value, children) ==
    [type |-> type, name |-> name, value |-> value, children |-> children,
     originPos |-> NoOrigin]

\* the node with the origin of its token
At(node, originPos) == [node EXCEPT !.originPos = originPos]

ConstantValueNode(value) == Node("CONSTANT_VALUE_NODE", "", value, <<>>)
VariableNode(name) == Node("VARIABLE_NODE", name, 0, <<>>)
OperatorNode(operatorType, children) == Node("OPERATOR_NODE", operatorType, 0, children)
ComparisonOperatorNode(operatorType, children) ==
    Node("COMPARISON_OPERATOR_NODE", operatorType, 0, children)
StatementsNode(children) == Node("STATEMENTS_NODE", "", 0, children)
BlockNode(statements) == Node("BLOCK_NODE", "", 0, <<statements>>)
IfNode(condition, body) == Node("IF_NODE", "", 0, <<condition, body>>)
IfElseNode(condition, ifBody, elseBody) ==
    Node("IF_ELSE_NODE", "", 0, <<condition, ifBody, elseBody>>)
WhileNode(condition, body) == Node("WHILE_NODE", "", 0, <<condition, body>>)
ParametersListNode(children) == Node("PARAMETERS_LIST_NODE", "", 0, children)
ArgumentsListNode(children) == Node("ARGUMENTS_LIST_NODE", "", 0, children)
FunctionDefinitionNode(name, parameters, body) ==
    Node("FUNCTION_DEFINITION_NODE", name, 0, <<parameters, body>>)
FunctionCallNode(name, arguments) == Node("FUNCTION_CALL_NODE", name, 0, <<arguments>>)
ReturnStatementNode(child) == Node("RETURN_STATEMENT_NODE", "", 0, <<child>>)

\* no tree: the root before the parser has run
NoNode == Node("NONE", "", 0, <<>>)

getChildrenNumber(node) == Len(node.children)

OptIdle ==
    /\ ast = NoNode
    /\ optimizeRuns = 0

GenIdle ==
    /\ program = <<>>
    /\ out = <<>>
    /\ codegenResult = [type |-> "constructed", what |-> ""]

NoAccess == [kind |-> "none", address |-> 0, base |-> 0, variable |-> 0]

RunIdle ==
    /\ pc = 1
    /\ stack = <<>>
    /\ ram = [a \in {} |-> 0]
    /\ registers = [AX |-> 0, BX |-> 0, CX |-> 0]
    /\ callStack = <<>>
    /\ frameBases = <<>>
    /\ output = <<>>
    /\ lastAccess = NoAccess
    /\ machineState = "off"
    /\ mainResult = [state |-> "running", exitCode |-> "", stderr |-> ""]

(***************************************************************************)
(* The tokenizer                                                           *)
(***************************************************************************)
Digits == {"0", "1"}
\* the letters of the inputs: those of the keywords and of the words around them
Letters == {"a", "c", "d", "e", "f", "g", "h", "i", "l", "n", "o", "r", "s", "t", "u", "v", "w"}
\* the letters of the inputs that are enumerated character by character
InputLetters == {"e", "f", "i"}
Spaces == {" ", "\n"}
\* the characters the inputs are made of: every character addNextToken
\* distinguishes, and one ("_") that it rejects
InputChars ==
    Digits \cup InputLetters \cup Spaces \cup
    {";", ",", "(", ")", "{", "}", "*", "/", "+", "-", "^", "<", ">", "=", "!", ".", "_"}

isdigit(c) == c \in Digits
isalpha(c) == c \in Letters

RECURSIVE SeqsUpTo(_, _)
SeqsUpTo(S, n) ==
    IF n = 0 THEN {<<>>}
    ELSE LET shorter == SeqsUpTo(S, n - 1)
         IN  shorter \cup {Append(s, c) : s \in {t \in shorter : Len(t) = n - 1}, c \in S}

Drop(s, n) == SubSeq(s, n + 1, Len(s))
Take(s, n) == SubSeq(s, 1, n)

\* the length of the longest prefix of s made of characters of the class
RunLength(s, class) ==
    LET others == {i \in 1..Len(s) : s[i] \notin class}
    IN  IF others = {} THEN Len(s)
        ELSE (CHOOSE i \in others : \A j \in others : i <= j) - 1

Token(type, kind, text, origin) ==
    [type |-> type, kind |-> kind, text |-> text, origin |-> origin]

\* the whitespace loop at the start of addNextToken: the origin after whitespace s
RECURSIVE SkipOrigin(_, _)
SkipOrigin(s, origin) ==
    IF s = <<>> THEN origin
    ELSE SkipOrigin(Tail(s),
                    IF Head(s) = "\n"
                    THEN [line |-> origin.line + 1, column |-> 1]
                    ELSE [line |-> origin.line, column |-> origin.column + 1])

\* strtod on a string that starts with a digit: the number of characters of the
\* longest decimal prefix (digits, a fraction, an exponent with at least one digit)
StrtodLength(s) ==
    LET intLen == RunLength(s, Digits)
        afterInt == Drop(s, intLen)
        fracLen == IF afterInt # <<>> /\ Head(afterInt) = "."
                   THEN 1 + RunLength(Tail(afterInt), Digits)
                   ELSE 0
        afterFrac == Drop(afterInt, fracLen)
        signLen == IF Len(afterFrac) >= 2 /\ afterFrac[2] \in {"+", "-"} THEN 1 ELSE 0
        expDigits == IF afterFrac # <<>> /\ Head(afterFrac) = "e"
                     THEN RunLength(Drop(afterFrac, 1 + signLen), Digits)
                     ELSE 0
        expLen == IF expDigits > 0 THEN 1 + signLen + expDigits ELSE 0
    IN  intLen + fracLen + expLen

\* the do-while loop that copies a name: at most MAX_ID_LENGTH characters
NameLength(s) ==
    LET run == RunLength(s, Letters \cup Digits)
    IN  IF run < MAX_ID_LENGTH THEN run ELSE MAX_ID_LENGTH

isCloseRoundParenthesisToken(token) ==
    token.type = "PARENTHESIS" /\ token.kind = "CLOSE_ROUND"

\* a faulty variant: a closing parenthesis of either kind makes the operator binary
IsBinary_AnyClose(emitted) ==
    /\ emitted # <<>>
    /\ LET previousToken == emitted[Len(emitted)]
       IN  \/ previousToken.type = "CONSTANT_VALUE"
           \/ previousToken.type = "ID"
           \/ previousToken.type = "PARENTHESIS" /\ previousToken.kind \in {"CLOSE_ROUND", "CLOSE_CURLY"}

\* isBinary in addNextToken, from the tokens emitted so far
IsBinary(emitted) ==
    /\ emitted # <<>>
    /\ LET previousToken == emitted[Len(emitted)]
       IN  \/ previousToken.type = "CONSTANT_VALUE"
           \/ previousToken.type = "ID"
           \/ isCloseRoundParenthesisToken(previousToken)

KeywordType(name) ==
    CASE name = <<"i", "f">> -> "IF"
      [] name = <<"e", "l", "s", "e">> -> "ELSE"
      [] name = <<"w", "h", "i", "l", "e">> -> "WHILE"
      [] name = <<"f", "u", "n", "c">> -> "FUNC"
      [] name = <<"v", "a", "r">> -> "VAR"
      [] name = <<"r", "e", "t", "u", "r", "n">> -> "RETURN"
      [] OTHER -> "ID"

\* the token addNextToken makes from s, which starts with no whitespace and is
\* not empty, after the tokens emitted so far; type "INVALID" when it throws
NextToken(s, emitted, origin) ==
    LET c == Head(s)
        second == IF Len(s) >= 2 THEN s[2] ELSE "NUL"
        One(type, kind) == Token(type, kind, Take(s, 1), origin)
        OneOrTwo(long, short) ==
            IF second = "="
            THEN Token(long[1], long[2], Take(s, 2), origin)
            ELSE Token(short[1], short[2], Take(s, 1), origin)
    IN  CASE c = ";" -> One("SEMICOLON", "")
          [] c = "," -> One("COMMA", "")
          [] c = "(" -> One("PARENTHESIS", "OPEN_ROUND")
          [] c = ")" -> One("PARENTHESIS", "CLOSE_ROUND")
          [] c = "{" -> One("PARENTHESIS", "OPEN_CURLY")
          [] c = "}" -> One("PARENTHESIS", "CLOSE_CURLY")
          [] c = "*" -> One("OPERATOR", "MULTIPLICATION")
          [] c = "/" -> One("OPERATOR", "DIVISION")
          [] c = "+" -> IF IsBinary(emitted)
                        THEN One("OPERATOR", "ADDITION")
                        ELSE One("OPERATOR", "UNARY_ADDITION")
          [] c = "-" -> IF IsBinary(emitted)
                        THEN One("OPERATOR", "SUBTRACTION")
                        ELSE One("OPERATOR", "ARITHMETIC_NEGATION")
          [] c = "^" -> One("OPERATOR", "POWER")
          [] c = "<" -> OneOrTwo(<<"COMPARISON_OPERATOR", "LESS_OR_EQUAL">>,
                                 <<"COMPARISON_OPERATOR", "LESS">>)
          [] c = ">" -> OneOrTwo(<<"COMPARISON_OPERATOR", "GREATER_OR_EQUAL">>,
                                 <<"COMPARISON_OPERATOR", "GREATER">>)
          [] c = "=" -> OneOrTwo(<<"COMPARISON_OPERATOR", "EQUAL">>,
                                 <<"OPERATOR", "ASSIGNMENT">>)
          [] c = "!" /\ second = "=" ->
                Token("COMPARISON_OPERATOR", "NOT_EQUAL", Take(s, 2), origin)
          [] isdigit(c) -> Token("CONSTANT_VALUE", "", Take(s, StrtodLength(s)), origin)
          [] isalpha(c) ->
                LET name == Take(s, NameLength(s))
                IN  Token(KeywordType(name), "", name, origin)
          [] OTHER -> Token("INVALID", "", Take(s, 1), origin)

\* the keywords, words that start with a keyword or are a prefix of one
Words ==
    {<<"i", "f">>,
     <<"e", "l", "s", "e">>,
     <<"w", "h", "i", "l", "e">>,
     <<"f", "u", "n", "c">>,
     <<"v", "a", "r">>,
     <<"r", "e", "t", "u", "r", "n">>,
     <<"i", "f", "c", "o", "n", "f", "i", "g">>,
     <<"e", "l", "s", "e", "i", "f">>,
     <<"w", "h", "i", "l", "e", "d">>,
     <<"f", "u", "n", "c", "1">>,
     <<"v", "a", "r", "s">>,
     <<"r", "e", "t", "u", "r", "n", "s">>,
     <<"i">>,
     <<"e", "l">>}

\* words longer than MAX_ID_LENGTH: "e...e" and "e...eif"
LongWords ==
    {[i \in 1..(MAX_ID_LENGTH + 1) |-> "e"],
     [i \in 1..(MAX_ID_LENGTH + 2) |->
        IF i <= MAX_ID_LENGTH THEN "e" ELSE IF i = MAX_ID_LENGTH + 1 THEN "i" ELSE "f"]}

TokIdle ==
    /\ expression = <<>>
    /\ currentTokenOrigin = [line |-> 1, column |-> 1]
    /\ tokens = <<>>
    /\ tokenizeResult = "idle"
    /\ parseResult = "idle"

\* tokenize(expression) at its start, for every input up to MaxInputLen
\* characters and for the words
TokInit ==
    /\ SymIdle
    /\ OptIdle
    /\ GenIdle
    /\ RunIdle
    /\ expression \in SeqsUpTo(InputChars, MaxInputLen) \cup Words \cup LongWords
    /\ currentTokenOrigin = [line |-> 1, column |-> 1]
    /\ tokens = <<>>
    /\ tokenizeResult = "running"
    /\ parseResult = "idle"

\* one call of addNextToken from the loop of tokenize
AddNextToken ==
    /\ tokenizeResult = "running"
    /\ LET spaces == RunLength(expression, Spaces)
           rest == Drop(expression, spaces)
           origin == SkipOrigin(Take(expression, spaces), currentTokenOrigin)
       IN  IF rest = <<>>
           THEN /\ expression' = rest
                /\ currentTokenOrigin' = origin
                /\ tokenizeResult' = "returned"
                /\ UNCHANGED tokens
           ELSE LET token == NextToken(rest, tokens, origin)
                IN  IF token.type = "INVALID"
                    THEN /\ expression' = rest
                         /\ currentTokenOrigin' = origin
                         /\ tokenizeResult' = "SyntaxError"
                         /\ UNCHANGED tokens
                    ELSE /\ tokens' = Append(tokens, token)
                         /\ expression' = Drop(rest, Len(token.text))
                         /\ currentTokenOrigin' =
                                [line |-> origin.line,
                                 column |-> origin.column + Len(token.text)]
                         /\ UNCHANGED tokenizeResult
    /\ UNCHANGED <<parseResult, symVars, optVars, genVars, runVars>>

TokNext == AddNextToken

SpecTok == TokInit /\ [][TokNext]_vars

(***************************************************************************)
(* Claims about the tokenizer                                              *)
(***************************************************************************)
IsSignToken(token) == token.text \in {<<"+">>, <<"-">>}

\* C3: every token emitted for a "+" or "-" is the binary operator (ADDITION,
\* SUBTRACTION) if and only if the token emitted before it is a number
\* literal, an identifier or a closing round parenthesis; after any other
\* token, and as the first token, it is the unary operator (UNARY_ADDITION,
\* ARITHMETIC_NEGATION).
C3_SignDisambiguation ==
    \A i \in 1..Len(tokens) :
        IsSignToken(tokens[i]) =>
            LET afterOperand ==
                    /\ i > 1
                    /\ \/ tokens[i - 1].type \in {"CONSTANT_VALUE", "ID"}
                       \/ tokens[i - 1].text = <<")">>
            IN  /\ tokens[i].type = "OPERATOR"
                /\ tokens[i].text = <<"+">> =>
                     tokens[i].kind = (IF afterOperand THEN "ADDITION" ELSE "UNARY_ADDITION")
                /\ tokens[i].text = <<"-">> =>
                     tokens[i].kind = (IF afterOperand THEN "SUBTRACTION"
                                       ELSE "ARITHMETIC_NEGATION")

\* "}-+" has been read: a unary minus after the curly parenthesis, a unary plus after it
C3_Witness ==
    /\ Len(tokens) = 3
    /\ tokens[1].text = <<"}">>
    /\ tokens[2].kind = "ARITHMETIC_NEGATION"
    /\ tokens[3].kind = "UNARY_ADDITION"

KeywordWords ==
    {<<"i", "f">>, <<"e", "l", "s", "e">>, <<"w", "h", "i", "l", "e">>, <<"f", "u", "n", "c">>, <<"v", "a", "r">>, <<"r", "e", "t", "u", "r", "n">>}
KeywordTypes == {"IF", "ELSE", "WHILE", "FUNC", "VAR", "RETURN"}

\* the input after the whitespace at its start
AfterSpaces == Drop(expression, RunLength(expression, Spaces))

\* C17: a word at a token start (a letter followed by letters and digits)
\* becomes one token that carries the whole word; the token is a keyword
\* exactly when the word is if, else, while, func, var or return, and an
\* identifier otherwise.
C17_KeywordsAndIdentifiers ==
    [][(tokenizeResult = "running" /\ AfterSpaces # <<>> /\ isalpha(Head(AfterSpaces))) =>
          LET word == Take(AfterSpaces, RunLength(AfterSpaces, Letters \cup Digits))
              token == tokens'[Len(tokens')]
          IN  /\ Len(tokens') = Len(tokens) + 1
              /\ token.text = word
              /\ token.type \in KeywordTypes \cup {"ID"}
              /\ token.type \in KeywordTypes <=> word \in KeywordWords]_vars

\* C23: a run of letters and digits that starts with a letter and is not a
\* keyword produces exactly one identifier token for the run: the whole run is
\* read, and the name is the run, or its first MAX_ID_LENGTH characters when
\* the run is longer.
C23_LongIdentifierTruncated ==
    [][(tokenizeResult = "running" /\ AfterSpaces # <<>> /\ isalpha(Head(AfterSpaces))) =>
          LET run == Take(AfterSpaces, RunLength(AfterSpaces, Letters \cup Digits))
              token == tokens'[Len(tokens')]
          IN  run \notin KeywordWords =>
                  /\ Len(tokens') = Len(tokens) + 1
                  /\ token.type = "ID"
                  /\ token.text = IF Len(run) > MAX_ID_LENGTH
                                  THEN Take(run, MAX_ID_LENGTH)
                                  ELSE run
                  /\ expression' = Drop(AfterSpaces, Len(run))]_vars

\* the characters a token can start with, "!" apart
TokenStarts ==
    Spaces \cup Digits \cup Letters \cup
    {";", ",", "(", ")", "{", "}", "*", "/", "+", "-", "<", ">", "="}

\* C18: a character at a token start that is not whitespace, not one of
\* ; , ( ) { } * / + - < > =, not the start of !=, not a digit and not a letter
\* makes tokenize fail with a SyntaxError at the (line, column) of that
\* character, which names the character; no token sequence is returned.
C18_InvalidCharacter ==
    [][(/\ tokenizeResult = "running"
        /\ AfterSpaces # <<>>
        /\ Head(AfterSpaces) \notin TokenStarts
        /\ ~(Len(AfterSpaces) >= 2 /\ Head(AfterSpaces) = "!" /\ AfterSpaces[2] = "="))
       => /\ tokenizeResult' = "SyntaxError"
          /\ currentTokenOrigin' =
                 SkipOrigin(Take(expression, RunLength(expression, Spaces)), currentTokenOrigin)
          /\ expression' = AfterSpaces
          /\ tokens' = tokens]_vars

(***************************************************************************)
(* SpecSym: the symbol table driven call by call                          *)
(***************************************************************************)
SymInit ==
    /\ SymIdle
    /\ TokIdle
    /\ OptIdle
    /\ GenIdle
    /\ RunIdle

\* SymbolTable::addVariable(name, originPos)
SymAddVariable(name) ==
    /\ declCount < MaxDecls
    /\ declCount' = declCount + 1
    /\ IF AddVariableThrows(variables, name)
       THEN /\ lastCall' = Call("addVariable", name, 0, {}, "RedefinitionError")
            /\ UNCHANGED <<variables, nextLocalVariableAddress>>
       ELSE /\ variables' = AddVariableScopes(variables, nextLocalVariableAddress,
                                              name, declCount + 1)
            /\ nextLocalVariableAddress' = AddVariableNext(nextLocalVariableAddress)
            /\ lastCall' = Call("addVariable", name, 0, {}, "ok")
    /\ UNCHANGED <<functions, nextId, enterSnapshots, tokVars, optVars, genVars, runVars>>

\* SymbolTable::enterBlock()
SymEnterBlock ==
    /\ Len(variables) < MaxScopeDepth
    /\ variables' = EnterBlockScopes(variables)
    /\ enterSnapshots' = <<Snapshot(variables)>> \o enterSnapshots
    /\ lastCall' = Call("enterBlock", NULL, 0, {}, "ok")
    /\ UNCHANGED <<nextLocalVariableAddress, functions, nextId, declCount, tokVars, optVars, genVars, runVars>>

\* SymbolTable::enterFunction(): functions are defined in the outermost scope only
SymEnterFunction ==
    /\ Len(variables) = 1
    /\ variables' = EnterBlockScopes(variables)
    /\ nextLocalVariableAddress' = 0
    /\ enterSnapshots' = <<Snapshot(variables)>> \o enterSnapshots
    /\ lastCall' = Call("enterFunction", NULL, 0, {}, "ok")
    /\ UNCHANGED <<functions, nextId, declCount, tokVars, optVars, genVars, runVars>>

\* SymbolTable::leaveBlock() (and leaveFunction(), which only calls it); the
\* callers leave only scopes they entered
SymLeaveBlock ==
    /\ Len(variables) > 1
    /\ variables' = LeaveBlockScopes(variables)
    /\ nextLocalVariableAddress' = LeaveBlockNext(variables)
    /\ enterSnapshots' = Tail(enterSnapshots)
    /\ lastCall' = Call("leaveBlock", NULL, 0, LeaveBlockFreed(variables), "ok")
    /\ UNCHANGED <<functions, nextId, declCount, tokVars, optVars, genVars, runVars>>

\* SymbolTable::addFunction(name, returnType, argumentsNumber, originPos)
SymAddFunction(name, returnType, argumentsNumber) ==
    /\ declCount < MaxDecls
    /\ declCount' = declCount + 1
    /\ IF AddFunctionThrows(functions, name)
       THEN /\ lastCall' = Call("addFunction", name, argumentsNumber, {},
                                 "RedefinitionError")
            /\ UNCHANGED <<functions, nextId>>
       ELSE /\ functions' = AddFunctionTable(functions, name, returnType,
                                             argumentsNumber, declCount + 1, nextId)
            /\ nextId' = nextId + 1
            /\ lastCall' = Call("addFunction", name, argumentsNumber, {}, "ok")
    /\ UNCHANGED <<variables, nextLocalVariableAddress, enterSnapshots, tokVars, optVars, genVars, runVars>>

SymNext ==
    \/ \E name \in VarNames : SymAddVariable(name)
    \/ SymEnterBlock
    \/ SymEnterFunction
    \/ SymLeaveBlock
    \/ \E name \in SymFuncNames, returnType \in {VOID, DOUBLE},
          argumentsNumber \in SymArgNumbers :
            SymAddFunction(name, returnType, argumentsNumber)

SpecSym == SymInit /\ [][SymNext]_vars

(***************************************************************************)
(* Claims about the symbol table                                           *)
(***************************************************************************)
IsAddVariableStep == declCount' = declCount + 1 /\ lastCall'.op = "addVariable"
IsLeaveBlockStep == Len(variables') < Len(variables) /\ lastCall'.op = "leaveBlock"
IsAddFunctionStep == declCount' = declCount + 1 /\ lastCall'.op = "addFunction"

\* C1: addVariable(name) raises RedefinitionError exactly when the innermost
\* scope already declares name; otherwise it succeeds and the name resolves to
\* the new (inner) symbol, also when an enclosing scope declares it; and after
\* the matching leaveBlock every name resolves to what it resolved to when the
\* block was entered (the enclosing scope's symbol, or nothing).
C1_ShadowingAndRedefinition ==
    [][ /\ IsAddVariableStep =>
            LET name == lastCall'.name IN
            /\ (lastCall'.result = "RedefinitionError") <=> (name \in DOMAIN variables[1])
            /\ (name \notin DOMAIN variables[1]) =>
                  /\ hasVariableIn(variables', name)
                  /\ getVariableByNameIn(variables', name)
                        = VariableSymbol(nextLocalVariableAddress, declCount')
            /\ (name \in DOMAIN variables[1]) => variables' = variables
        /\ IsLeaveBlockStep =>
            \A n \in VarNames : Resolve(variables', n) = enterSnapshots[1][n]
      ]_vars

\* a block that shadowed x has been left and x resolves to an enclosing scope's symbol
C1_Witness ==
    /\ lastCall.op = "leaveBlock"
    /\ "x" \in lastCall.freed
    /\ hasVariable("x")

OpenFunctionVariables(scopes) ==
    {<<i, n>> : i \in 1..(Len(scopes) - 1), n \in VarNames} \cap
    {v \in (1..Len(scopes)) \X VarNames : v[2] \in DOMAIN scopes[v[1]]}

\* C21: at any point inside a function, no two variables declared in
\* currently open scopes of the function have the same local address. (The
\* generator declares variables inside functions only: the outermost scope
\* holds none.)
C21_AddressesDistinct ==
    variables[Len(variables)] = EmptyScope =>
        \A v, w \in OpenFunctionVariables(variables) :
            v # w => variables[v[1]][v[2]].address # variables[w[1]][w[2]].address

\* C22: after leaveBlock nextLocalVariableAddress is the maximum address among
\* the variables of the scope that has become innermost plus 8, and 0 when
\* that scope is the outermost one.
C22_LeaveBlockRestoresAddress ==
    [][ IsLeaveBlockStep =>
          IF Len(variables') = 1
          THEN nextLocalVariableAddress' = 0
          ELSE DOMAIN variables'[1] # {} =>
                   nextLocalVariableAddress' =
                       SetMax({variables'[1][n].address : n \in DOMAIN variables'[1]})
                           + VARIABLE_SIZE_IN_BYTES
      ]_vars

(***************************************************************************)
(* The AST optimizers                                                      *)
(***************************************************************************)
MaxAstDepth == 3
MaxOptimizeRuns == 2

isOperator(node, operatorType) == node.type = "OPERATOR_NODE" /\ node.name = operatorType

isZeroConstant(node) == node.type = "CONSTANT_VALUE_NODE" /\ node.value = 0
isOneConstant(node) == node.type = "CONSTANT_VALUE_NODE" /\ node.value = 1

\* OperatorToken::calculate for the operators of the model
calculate(operatorType, args) ==
    CASE operatorType = "ADDITION" -> args[1] + args[2]
      [] operatorType = "SUBTRACTION" -> args[1] - args[2]
      [] operatorType = "MULTIPLICATION" -> args[1] * args[2]
      [] operatorType = "ARITHMETIC_NEGATION" -> 0 - args[1]
      [] operatorType = "UNARY_ADDITION" -> args[1]

\* the do-while loop of UnaryAdditionOptimizer::optimizeCurrent
RECURSIVE UnaryAdditionOptimizeCurrent(_)
UnaryAdditionOptimizeCurrent(node) ==
    IF isOperator(node, "UNARY_ADDITION")
    THEN UnaryAdditionOptimizeCurrent(node.children[1])
    ELSE node

\* the do-while loop of ArithmeticNegationOptimizer::optimizeCurrent
RECURSIVE ArithmeticNegationOptimizeCurrent(_)
ArithmeticNegationOptimizeCurrent(node) ==
    IF /\ isOperator(node, "ARITHMETIC_NEGATION")
       /\ isOperator(node.children[1], "ARITHMETIC_NEGATION")
    THEN ArithmeticNegationOptimizeCurrent(node.children[1].children[1])
    ELSE node

RECURSIVE TrivialAdditionOptimizeCurrent(_)
TrivialAdditionOptimizeCurrent(node) ==
    IF isOperator(node, "ADDITION")
    THEN IF isZeroConstant(node.children[1])
         THEN TrivialAdditionOptimizeCurrent(node.children[2])
         ELSE IF isZeroConstant(node.children[2])
              THEN TrivialAdditionOptimizeCurrent(node.children[1])
              ELSE node
    ELSE node

RECURSIVE TrivialMultiplicationOptimizeCurrent(_)
TrivialMultiplicationOptimizeCurrent(node) ==
    IF isOperator(node, "MULTIPLICATION")
    THEN IF isZeroConstant(node.children[1]) \/ isOneConstant(node.children[2])
         THEN TrivialMultiplicationOptimizeCurrent(node.children[1])
         ELSE IF isZeroConstant(node.children[2]) \/ isOneConstant(node.children[1])
              THEN TrivialMultiplicationOptimizeCurrent(node.children[2])
              ELSE node
    ELSE node

ConstantCompressorOptimizeCurrent(node) ==
    IF node.type \in {"STATEMENTS_NODE", "BLOCK_NODE"} THEN node
    ELSE IF getChildrenNumber(node) = 0 THEN node
    ELSE IF getChildrenNumber(node) = 1
         THEN IF node.children[1].type = "CONSTANT_VALUE_NODE"
              THEN ConstantValueNode(calculate(node.name, <<node.children[1].value>>))
              ELSE node
    ELSE IF getChildrenNumber(node) = 2
         THEN IF /\ node.children[1].type = "CONSTANT_VALUE_NODE"
                 /\ node.children[2].type = "CONSTANT_VALUE_NODE"
              THEN ConstantValueNode(calculate(node.name, <<node.children[1].value,
                                                           node.children[2].value>>))
              ELSE node
    ELSE Node("logic_error", "Unsupported arity of operator", 0, <<>>)

\* Optimizer::optimize of an optimizer constructed with optimizeChildrenFirst = false
RECURSIVE UnaryAdditionOptimize(_)
UnaryAdditionOptimize(node) ==
    LET current == UnaryAdditionOptimizeCurrent(node)
    IN  [current EXCEPT !.children =
            [i \in DOMAIN current.children |-> UnaryAdditionOptimize(current.children[i])]]

RECURSIVE ArithmeticNegationOptimize(_)
ArithmeticNegationOptimize(node) ==
    LET current == ArithmeticNegationOptimizeCurrent(node)
    IN  [current EXCEPT !.children =
            [i \in DOMAIN current.children |-> ArithmeticNegationOptimize(current.children[i])]]

\* a faulty variant: the trivial additions are left alone
TrivialOperationsOptimizeCurrent_NoAddition(node) ==
    ConstantCompressorOptimizeCurrent(TrivialMultiplicationOptimizeCurrent(node))

\* CompositeOptimizer::optimizeCurrent of TrivialOperationsOptimizer
TrivialOperationsOptimizeCurrent(node) ==
    ConstantCompressorOptimizeCurrent(
        TrivialAdditionOptimizeCurrent(
            TrivialMultiplicationOptimizeCurrent(node)))

RECURSIVE TrivialOperationsOptimize(_)
TrivialOperationsOptimize(node) ==
    TrivialOperationsOptimizeCurrent(
        [node EXCEPT !.children =
            [i \in DOMAIN node.children |-> TrivialOperationsOptimize(node.children[i])]])

\* CompositeOptimizer::optimize of the optimizer main builds
DefaultPipeline(node) ==
    TrivialOperationsOptimize(ArithmeticNegationOptimize(UnaryAdditionOptimize(node)))

RECURSIVE Depth(_)
Depth(node) ==
    IF node.children = <<>> THEN 0
    ELSE 1 + SetMax({Depth(node.children[i]) : i \in DOMAIN node.children})

OptLeaves == {ConstantValueNode(0), ConstantValueNode(1), VariableNode("x")}
\* the origins of the tokens of the tree that is built: distinct tokens have
\* distinct origins, numbered here in the order the nodes are made
FirstOrigin == [line |-> 1, column |-> 1]
OperatorOrigin(node) == [line |-> 1, column |-> 2 * (Depth(node) + 1)]
OperandOrigin(node) == [line |-> 1, column |-> 2 * (Depth(node) + 1) + 1]
OptUnaryOperators == {"UNARY_ADDITION", "ARITHMETIC_NEGATION"}
OptBinaryOperators == {"ADDITION", "MULTIPLICATION"}

OptInit ==
    /\ SymIdle
    /\ TokIdle
    /\ GenIdle
    /\ RunIdle
    /\ ast \in {At(leaf, FirstOrigin) : leaf \in OptLeaves}
    /\ optimizeRuns = 0

\* getFactor: ('+' | '-') Factor
ParseUnary(operatorType) ==
    /\ optimizeRuns = 0
    /\ Depth(ast) < MaxAstDepth
    /\ ast' = At(OperatorNode(operatorType, <<ast>>), OperatorOrigin(ast))
    /\ UNCHANGED <<optimizeRuns, symVars, tokVars, genVars, runVars>>

\* getExpression, getTerm: the tree built so far becomes an operand of a binary operator
ParseBinary(operatorType, other, astIsLeft) ==
    /\ optimizeRuns = 0
    /\ Depth(ast) < MaxAstDepth
    /\ LET operand == At(other, OperandOrigin(ast))
       IN  ast' = At(IF astIsLeft THEN OperatorNode(operatorType, <<ast, operand>>)
                                  ELSE OperatorNode(operatorType, <<operand, ast>>),
                     OperatorOrigin(ast))
    /\ UNCHANGED <<optimizeRuns, symVars, tokVars, genVars, runVars>>

\* ASTRoot = optimizer->optimize(ASTRoot)
Optimize ==
    /\ optimizeRuns < MaxOptimizeRuns
    /\ ast' = DefaultPipeline(ast)
    /\ optimizeRuns' = optimizeRuns + 1
    /\ UNCHANGED <<symVars, tokVars, genVars, runVars>>

OptNext ==
    \/ \E operatorType \in OptUnaryOperators : ParseUnary(operatorType)
    \/ \E operatorType \in OptBinaryOperators, other \in OptLeaves, astIsLeft \in BOOLEAN :
          ParseBinary(operatorType, other, astIsLeft)
    \/ Optimize

SpecOpt == OptInit /\ [][OptNext]_vars

\* f() and g(): operands that are calls
OptCalls == {FunctionCallNode(name, ArgumentsListNode(<<>>)) : name \in {"f", "g"}}
OptCallLeaves == OptLeaves \cup OptCalls

OptCallInit ==
    /\ SymIdle
    /\ TokIdle
    /\ GenIdle
    /\ RunIdle
    /\ ast \in {At(leaf, FirstOrigin) : leaf \in OptCallLeaves}
    /\ optimizeRuns = 0

OptCallNext ==
    \/ \E operatorType \in OptUnaryOperators : ParseUnary(operatorType)
    \/ \E operatorType \in OptBinaryOperators, other \in OptCallLeaves, astIsLeft \in BOOLEAN :
          ParseBinary(operatorType, other, astIsLeft)
    \/ Optimize

\* expressions over constants, a variable and calls
SpecOptCall == OptCallInit /\ [][OptCallNext]_vars

(***************************************************************************)
(* Claims about the optimizers                                             *)
(***************************************************************************)
\* C5: running the default pipeline on its own output returns an AST equal
\* to that output, for every AST.
C5_PipelineIdempotent ==
    [][(optimizeRuns >= 1 /\ optimizeRuns' = optimizeRuns + 1) => ast' = ast]_vars

\* C19: after a run of the optimizers the node that stands at the root carries
\* the origin of the node that stood there before, whether the root was
\* rewritten (unary plus elided, double negation collapsed, trivial addition or
\* multiplication removed, constants folded) or not.
C19_RewriteKeepsOrigin ==
    [][optimizeRuns' = optimizeRuns + 1 => ast'.originPos = ast.originPos]_vars

\* an addition with a literal zero operand, or a multiplication with a literal
\* zero or one operand
IsTrivialOperation(node) ==
    /\ isOperator(node, "ADDITION") \/ isOperator(node, "MULTIPLICATION")
    /\ \E i \in 1..2 :
          \/ isZeroConstant(node.children[i])
          \/ isOperator(node, "MULTIPLICATION") /\ isOneConstant(node.children[i])

RECURSIVE HasTrivialOperation(_)
HasTrivialOperation(node) ==
    \/ IsTrivialOperation(node)
    \/ \E i \in DOMAIN node.children : HasTrivialOperation(node.children[i])

\* an already optimized tree: the optimizers leave it as it is
AlreadyOptimized(node) == DefaultPipeline(node) = node

\* C24: after the trivial-operations pass no addition with a literal zero
\* operand and no multiplication with a literal zero or one operand remains
\* anywhere in the tree; and when the operands x of the root are already
\* optimized, 0 + x and x + 0 have become x, 0 * x and x * 0 have become the
\* literal 0, and 1 * x and x * 1 (x not the literal 0) have become x.
C24_TrivialOperationsRemoved ==
    [][optimizeRuns' = optimizeRuns + 1 =>
          /\ ~HasTrivialOperation(ast')
          /\ (/\ IsTrivialOperation(ast)
              /\ \A i \in 1..2 : AlreadyOptimized(ast.children[i])) =>
                LET operands == ast.children
                    zeros == {i \in 1..2 : isZeroConstant(operands[i])}
                    ones == {i \in 1..2 : isOneConstant(operands[i])}
                IN  IF isOperator(ast, "ADDITION")
                    THEN \E i \in zeros : ast' = operands[3 - i]
                    ELSE IF zeros # {}
                         THEN \E i \in zeros : ast' = operands[i]
                         ELSE \E i \in ones : ast' = operands[3 - i]
      ]_vars

\* the optimizers have run and the root is the x that was the other operand of
\* a literal at the root (0 + x, 1 * x): the operation has been replaced by x
C24_Witness ==
    /\ optimizeRuns >= 1
    /\ ast = At(VariableNode("x"), OperandOrigin(ConstantValueNode(0)))

\* the names of the functions the tree calls, from left to right
RECURSIVE FunctionCalls(_)
FunctionCalls(node) ==
    LET ofChildren[i \in 0..Len(node.children)] ==
            IF i = 0 THEN <<>> ELSE ofChildren[i - 1] \o FunctionCalls(node.children[i])
    IN  (IF node.type = "FUNCTION_CALL_NODE" THEN <<node.name>> ELSE <<>>)
            \o ofChildren[Len(node.children)]

\* C29: a run of the optimizers removes no function call: the calls of the
\* optimized tree are the calls of the tree before the run, in the same order
\* from left to right.
C29_CallsKept ==
    [][optimizeRuns' = optimizeRuns + 1 => FunctionCalls(ast') = FunctionCalls(ast)]_vars

(***************************************************************************)
(* The code generator: the emitted lines                                   *)
(***************************************************************************)
\* a line of the listing: "PUSH 8" is Instruction("PUSH", "", 8, -1), "PUSH AX" is
\* Instruction("PUSH", "AX", 0, -1); variable is the local address of the variable
\* a RAM access is emitted for (-1 for any other line)
Instruction(op, arg, value, variable) ==
    [op |-> op, arg |-> arg, value |-> value, variable |-> variable]

push(value) == Instruction("PUSH", "", value, -1)
pushRamByReg(regName, variable) == Instruction("PUSH", "[" \o regName \o "]", 0, variable)
pushReg(regName) == Instruction("PUSH", regName, 0, -1)
pop == Instruction("POP", "", 0, -1)
popRamByReg(regName, variable) == Instruction("POP", "[" \o regName \o "]", 0, variable)
popReg(regName) == Instruction("POP", regName, 0, -1)
uncondJump(labelName) == Instruction("JMP", labelName, 0, -1)
ret == Instruction("RET", "", 0, -1)
halt == Instruction("HLT", "", 0, -1)
labelLine(labelName) == Instruction("LABEL", labelName, 0, -1)
functionProlog == pushReg("AX")
\* a faulty variant: the epilog saves AX again instead of restoring it
functionEpilog_AsProlog == pushReg("AX")
functionEpilog == popReg("AX")

\* a faulty variant: the strict comparisons are mirrored instead of negated
negateCompOp_Mirrored(compOp) ==
    CASE compOp = "LESS" -> "GREATER"
      [] compOp = "LESS_OR_EQUAL" -> "GREATER_OR_EQUAL"
      [] compOp = "GREATER" -> "LESS"
      [] compOp = "GREATER_OR_EQUAL" -> "LESS_OR_EQUAL"
      [] compOp = "EQUAL" -> "NOT_EQUAL"
      [] compOp = "NOT_EQUAL" -> "EQUAL"

negateCompOp(compOp) ==
    CASE compOp = "LESS" -> "GREATER_OR_EQUAL"
      [] compOp = "LESS_OR_EQUAL" -> "GREATER"
      [] compOp = "GREATER" -> "LESS_OR_EQUAL"
      [] compOp = "GREATER_OR_EQUAL" -> "LESS"
      [] compOp = "EQUAL" -> "NOT_EQUAL"
      [] compOp = "NOT_EQUAL" -> "EQUAL"

condJumpMnemonic(compOp) ==
    CASE compOp = "LESS" -> "JMPL"
      [] compOp = "LESS_OR_EQUAL" -> "JMPLE"
      [] compOp = "GREATER" -> "JMPG"
      [] compOp = "GREATER_OR_EQUAL" -> "JMPGE"
      [] compOp = "EQUAL" -> "JMPE"
      [] compOp = "NOT_EQUAL" -> "JMPNE"

condJump(compOp, labelName, isNegated) ==
    Instruction(condJumpMnemonic(IF isNegated THEN negateCompOp(compOp) ELSE compOp),
                labelName, 0, -1)

\* the lines arithmeticOperation writes
arithmeticOperation(op) ==
    CASE op = "ADDITION" -> <<Instruction("ADD", "", 0, -1)>>
      [] op = "SUBTRACTION" -> <<Instruction("SUB", "", 0, -1)>>
      [] op = "ARITHMETIC_NEGATION" -> <<push(-1), Instruction("MUL", "", 0, -1)>>
      [] op = "MULTIPLICATION" -> <<Instruction("MUL", "", 0, -1)>>
      [] op = "DIVISION" -> <<Instruction("DIV", "", 0, -1)>>
      [] op = "UNARY_ADDITION" -> <<>>
      [] op = "POWER" -> <<Instruction("POW", "", 0, -1)>>

\* call(functionSymbol)
call(functionSymbol) ==
    IF isInternal(functionSymbol)
    THEN Instruction(functionSymbol.internalName, "", 0, -1)
    ELSE Instruction("CALL", functionSymbol.label.name, 0, -1)

\* Label(): the name snprintf writes for the id
LabelName(id) == "L" \o ToString(id)

(***************************************************************************)
(* The code generator: the visitor                                         *)
(***************************************************************************)
NoException == [type |-> "none", what |-> ""]
Exception(type, what) == [type |-> type, what |-> what]

\* the visitor while it walks: its symbol table, Label::nextId, the lines
\* written so far and the exception in flight
VisitorState(scopes, next, table, id, lines, thrown) ==
    [variables |-> scopes, nextLocalVariableAddress |-> next, functions |-> table,
     nextId |-> id, out |-> lines, thrown |-> thrown]

Running(st) == st.thrown = NoException
Throw(st, type, what) ==
    IF Running(st) THEN [st EXCEPT !.thrown = Exception(type, what)] ELSE st
Emit(st, lines) == IF Running(st) THEN [st EXCEPT !.out = @ \o lines] ELSE st

\* push(address) of an offset computed in size_t: next - address wraps when
\* next < address, and the line then carries SIZE_MAX + 1 + value
pushOffset(offset) ==
    IF offset >= 0 THEN push(offset) ELSE Instruction("PUSH", "SIZE_MAX+1+", offset, -1)

getVarByAddress(st, address) ==
    LET offset == st.nextLocalVariableAddress - address
    IN  IF offset = 0
        THEN Emit(st, <<pushRamByReg("AX", address)>>)
        ELSE Emit(st, <<pushReg("AX"), pushOffset(offset)>>
                      \o arithmeticOperation("SUBTRACTION")
                      \o <<popReg("BX"), pushRamByReg("BX", address)>>)

setVarByAddress(st, address) ==
    LET offset == st.nextLocalVariableAddress - address
    IN  IF offset = 0
        THEN Emit(st, <<popRamByReg("AX", address)>>)
        ELSE Emit(st, <<pushReg("AX"), pushOffset(offset)>>
                      \o arithmeticOperation("SUBTRACTION")
                      \o <<popReg("BX"), popRamByReg("BX", address)>>)

\* CodegenVisitor::addVariable: AX += 8, then SymbolTable::addVariable
addVariable(st, name, originPos) ==
    LET advanced == Emit(st, <<pushReg("AX"), push(VARIABLE_SIZE_IN_BYTES),
                               Instruction("ADD", "", 0, -1), popReg("AX")>>)
    IN  IF ~Running(advanced) THEN advanced
        ELSE IF AddVariableThrows(advanced.variables, name)
             THEN Throw(advanced, "RedefinitionError", name)
             ELSE [advanced EXCEPT
                     !.variables = AddVariableScopes(@, advanced.nextLocalVariableAddress,
                                                     name, originPos),
                     !.nextLocalVariableAddress = AddVariableNext(@)]

enterBlock(st) == [st EXCEPT !.variables = EnterBlockScopes(@)]
enterFunction(st) == [enterBlock(st) EXCEPT !.nextLocalVariableAddress = 0]
leaveBlock(st) ==
    IF Running(st)
    THEN [st EXCEPT !.nextLocalVariableAddress = LeaveBlockNext(st.variables),
                    !.variables = LeaveBlockScopes(@)]
    ELSE st
leaveFunction(st) == leaveBlock(st)

\* returnsNonVoid reads functions.at(name) of a call: std::out_of_range when absent
returnsNonVoidThrows(node, st) ==
    node.type = "FUNCTION_CALL_NODE" /\ ~hasFunctionIn(st.functions, node.name)

returnsNonVoid(node, st) ==
    \/ node.type = "CONSTANT_VALUE_NODE"
    \/ node.type = "VARIABLE_NODE"
    \/ (node.type = "OPERATOR_NODE" /\ node.name # "ASSIGNMENT")
    \/ (node.type = "FUNCTION_CALL_NODE" /\ ~isVoid(st.functions[node.name]))

RECURSIVE accept(_, _)

visitConstantValueNode(node, st) == Emit(st, <<push(node.value)>>)

visitVariableNode(node, st) ==
    IF ~hasVariableIn(st.variables, node.name)
    THEN Throw(st, "SyntaxError", "Undeclared variable")
    ELSE getVarByAddress(st, getVariableByNameIn(st.variables, node.name).address)

visitOperatorNode(node, st) ==
    IF getChildrenNumber(node) = 1
    THEN accept(node.children[1], st)
    ELSE IF getChildrenNumber(node) = 2
    THEN IF node.name = "ASSIGNMENT"
         THEN LET variableName == node.children[1].name
                  declared == IF ~hasVariableIn(st.variables, variableName)
                              THEN addVariable(st, variableName, 0)
                              ELSE st
                  valued == accept(node.children[2], declared)
              IN  IF Running(valued)
                  THEN setVarByAddress(valued,
                           getVariableByNameIn(valued.variables, variableName).address)
                  ELSE valued
         ELSE Emit(accept(node.children[2], accept(node.children[1], st)),
                   arithmeticOperation(node.name))
    ELSE Throw(st, "logic_error", "Unsupported arity of operator")

visitComparisonOperatorNode(node, st) ==
    IF getChildrenNumber(node) = 1
    THEN accept(node.children[1], st)
    ELSE IF getChildrenNumber(node) = 2
    THEN accept(node.children[2], accept(node.children[1], st))
    ELSE Throw(st, "logic_error", "Unsupported arity of operator")

\* one iteration of the loop of visitStatementsNode
visitStatement(child, st) ==
    LET visited == accept(child, st)
    IN  IF ~Running(visited) THEN visited
        ELSE IF returnsNonVoidThrows(child, visited)
             THEN Throw(visited, "out_of_range", "map::at")
             ELSE IF returnsNonVoid(child, visited)
                  THEN Emit(visited, <<pop>>)
                  ELSE visited

\* the loop of visitStatementsNode over the children first..last, in order
\* (the range is walked in two halves, the second from where the first ended)
RECURSIVE visitStatementsRange(_, _, _, _)
visitStatementsRange(node, first, last, st) ==
    IF first > last \/ ~Running(st) THEN st
    ELSE IF first = last THEN visitStatement(node.children[first], st)
    ELSE LET middle == (first + last) \div 2
         IN  visitStatementsRange(node, middle + 1, last,
                 visitStatementsRange(node, first, middle, st))

visitStatementsNode(node, st) == visitStatementsRange(node, 1, getChildrenNumber(node), st)

visitBlockNode(node, st) == leaveBlock(accept(node.children[1], enterBlock(st)))

visitIfNode(node, st) ==
    LET condition == node.children[1]
        body == node.children[2]
        elseLabel == LabelName(st.nextId)
        labelled == [st EXCEPT !.nextId = @ + 1]
        jumped == Emit(accept(condition, labelled),
                       <<condJump(condition.name, elseLabel, TRUE)>>)
    IN  Emit(accept(body, jumped), <<labelLine(elseLabel)>>)

visitIfElseNode(node, st) ==
    LET condition == node.children[1]
        ifBody == node.children[2]
        elseBody == node.children[3]
        elseLabel == LabelName(st.nextId)
        jumped == Emit(accept(condition, [st EXCEPT !.nextId = @ + 1]),
                       <<condJump(condition.name, elseLabel, TRUE)>>)
        endLabel == LabelName(jumped.nextId)
        ifDone == Emit(accept(ifBody, [jumped EXCEPT !.nextId = @ + 1]),
                       <<uncondJump(endLabel), labelLine(elseLabel)>>)
    IN  Emit(accept(elseBody, ifDone), <<labelLine(endLabel)>>)

visitWhileNode(node, st) ==
    LET condition == node.children[1]
        body == node.children[2]
        loopStartLabel == LabelName(st.nextId)
        loopEndLabel == LabelName(st.nextId + 1)
        started == Emit([st EXCEPT !.nextId = @ + 2], <<labelLine(loopStartLabel)>>)
        jumped == Emit(accept(condition, started),
                       <<condJump(condition.name, loopEndLabel, TRUE)>>)
    IN  Emit(accept(body, jumped), <<uncondJump(loopStartLabel), labelLine(loopEndLabel)>>)

\* one iteration of the loop of visitParametersListNode
visitParameter(child, st) ==
    addVariable(setVarByAddress(st, st.nextLocalVariableAddress), child.name, 0)

RECURSIVE visitParametersRange(_, _, _, _)
visitParametersRange(node, first, last, st) ==
    IF first > last \/ ~Running(st) THEN st
    ELSE IF first = last THEN visitParameter(node.children[first], st)
    ELSE LET middle == (first + last) \div 2
         IN  visitParametersRange(node, middle + 1, last,
                 visitParametersRange(node, first, middle, st))

visitParametersListNode(node, st) ==
    IF getChildrenNumber(node) = 0 THEN st
    ELSE Emit(visitParametersRange(node, 1, getChildrenNumber(node),
                                   Emit(st, <<popReg("CX")>>)),
              <<pushReg("CX")>>)

\* a faulty variant: the arguments are visited from the first to the last
VisitedArgument_FirstToLast(childrenNumber, k) == k

\* the k-th argument visitArgumentsListNode visits: from the last to the first
VisitedArgument(childrenNumber, k) == childrenNumber - k + 1

\* the loop of visitArgumentsListNode, from its first-th to its last-th iteration
RECURSIVE visitArgumentsRange(_, _, _, _)
visitArgumentsRange(node, first, last, st) ==
    IF first > last \/ ~Running(st) THEN st
    ELSE IF first = last
         THEN accept(node.children[VisitedArgument(getChildrenNumber(node), first)], st)
    ELSE LET middle == (first + last) \div 2
         IN  visitArgumentsRange(node, middle + 1, last,
                 visitArgumentsRange(node, first, middle, st))

visitArgumentsListNode(node, st) == visitArgumentsRange(node, 1, getChildrenNumber(node), st)

visitFunctionDefinitionNode(node, st) ==
    LET parameters == node.children[1]
        body == node.children[2]
        \* size_t to unsigned char
        argumentsNumber == getChildrenNumber(parameters) % UCHAR_MODULUS
    IN  IF AddFunctionThrows(st.functions, node.name)
        THEN Throw(st, "RedefinitionError", node.name)
        ELSE LET added == [st EXCEPT
                             !.functions = AddFunctionTable(@, node.name, DOUBLE,
                                                            argumentsNumber, 0, st.nextId),
                             !.nextId = @ + 1]
                 functionSymbol == added.functions[node.name]
                 entered == enterFunction(
                                Emit(added, <<labelLine(functionSymbol.label.name),
                                              functionProlog>>))
                 walked == accept(body.children[1], accept(parameters, entered))
                 left == Emit(leaveFunction(walked), <<functionEpilog>>)
             IN  IF ~isVoid(functionSymbol) THEN Emit(left, <<push(0), ret>>) ELSE left

visitFunctionCallNode(node, st) ==
    LET arguments == node.children[1]
    IN  IF ~hasFunctionIn(st.functions, node.name)
        THEN Throw(st, "SyntaxError", "Undeclared function")
        ELSE IF getChildrenNumber(arguments) # st.functions[node.name].argumentsNumber
             THEN Throw(st, "SyntaxError", "Invalid arguments number")
             ELSE Emit(accept(arguments, st), <<call(st.functions[node.name])>>)

visitReturnStatementNode(node, st) ==
    LET child == node.children[1]
    IN  IF returnsNonVoidThrows(child, st)
        THEN Throw(st, "out_of_range", "map::at")
        ELSE LET nonVoidReturn == returnsNonVoid(child, st)
             IN  Emit(accept(child, st),
                      (IF nonVoidReturn THEN <<popReg("BX")>> ELSE <<>>)
                      \o <<functionEpilog>>
                      \o (IF nonVoidReturn THEN <<pushReg("BX")>> ELSE <<>>)
                      \o <<ret>>)

\* ASTNode::accept: the visit method of the node's type
accept(node, st) ==
    IF ~Running(st) THEN st
    ELSE CASE node.type = "CONSTANT_VALUE_NODE" -> visitConstantValueNode(node, st)
           [] node.type = "VARIABLE_NODE" -> visitVariableNode(node, st)
           [] node.type = "OPERATOR_NODE" -> visitOperatorNode(node, st)
           [] node.type = "COMPARISON_OPERATOR_NODE" -> visitComparisonOperatorNode(node, st)
           [] node.type = "STATEMENTS_NODE" -> visitStatementsNode(node, st)
           [] node.type = "BLOCK_NODE" -> visitBlockNode(node, st)
           [] node.type = "IF_NODE" -> visitIfNode(node, st)
           [] node.type = "IF_ELSE_NODE" -> visitIfElseNode(node, st)
           [] node.type = "WHILE_NODE" -> visitWhileNode(node, st)
           [] node.type = "PARAMETERS_LIST_NODE" -> visitParametersListNode(node, st)
           [] node.type = "ARGUMENTS_LIST_NODE" -> visitArgumentsListNode(node, st)
           [] node.type = "FUNCTION_DEFINITION_NODE" -> visitFunctionDefinitionNode(node, st)
           [] node.type = "FUNCTION_CALL_NODE" -> visitFunctionCallNode(node, st)
           [] node.type = "RETURN_STATEMENT_NODE" -> visitReturnStatementNode(node, st)

(***************************************************************************)
(* codegen(root): the lines before the walk, the walk of the top-level     *)
(* statements one by one, and the check of main after the walk             *)
(***************************************************************************)
MaxFunctions == 2
MaxParameters == 1

Result(type, what) == [type |-> type, what |-> what]

\* the visitor of the state
Visitor ==
    VisitorState(variables, nextLocalVariableAddress, functions, nextId, out, NoException)

\* codegen, up to root->accept(this)
CodegenBegin ==
    /\ codegenResult.type = "constructed"
    /\ LET mainFunction == UserFunctionSymbol("main", VOID, 0, INTERNAL_ORIGIN, nextId)
       IN  out' = out \o <<push(0), popReg("AX"), call(mainFunction), halt>>
    /\ nextId' = nextId + 1
    /\ codegenResult' = Result("walking", "")
    /\ UNCHANGED <<variables, nextLocalVariableAddress, functions, lastCall, enterSnapshots,
                   declCount, program, tokVars, optVars, runVars>>

\* root->accept(this): the next top-level statement of the program
VisitTopLevel(statement) ==
    /\ codegenResult.type = "walking"
    /\ Len(program) < MaxFunctions
    /\ program' = Append(program, statement)
    /\ \E visited \in {visitStatement(statement, Visitor)} :
           /\ variables' = visited.variables
           /\ nextLocalVariableAddress' = visited.nextLocalVariableAddress
           /\ functions' = visited.functions
           /\ nextId' = visited.nextId
           /\ out' = visited.out
           /\ codegenResult' = IF Running(visited) THEN codegenResult
                               ELSE Result(visited.thrown.type, visited.thrown.what)
    /\ UNCHANGED <<lastCall, enterSnapshots, declCount, tokVars, optVars, runVars>>

\* codegen, after root->accept(this)
CodegenEnd ==
    /\ codegenResult.type = "walking"
    /\ codegenResult' =
           IF ~hasFunction("main") \/ getFunctionByName("main").argumentsNumber # 0
           THEN Result("SyntaxError", "Expected no-arg 'main' function declaration")
           ELSE Result("returned", "")
    /\ UNCHANGED <<symVars, program, out, tokVars, optVars, runVars>>

GenInit ==
    /\ SymIdle
    /\ TokIdle
    /\ OptIdle
    /\ GenIdle
    /\ RunIdle

(***************************************************************************)
(* The programs of SpecGen                                                 *)
(***************************************************************************)
GenFuncNames == {"main", "f", "L2"}
GenParameterCounts == 0..MaxParameters \cup {UCHAR_MODULUS}

\* p1, ..., pn
Parameters(n) == ParametersListNode([i \in 1..n |-> VariableNode("p" \o ToString(i))])
\* the constants 1, ..., n
ConstantArguments(n) == ArgumentsListNode([i \in 1..n |-> ConstantValueNode(i)])
Body(statements) == BlockNode(StatementsNode(statements))
Assignment(name, value) == OperatorNode("ASSIGNMENT", <<VariableNode(name), value>>)

OneLessThanTwo ==
    ComparisonOperatorNode("LESS", <<ConstantValueNode(1), ConstantValueNode(2)>>)

\* bodies with a conditional or a loop
LabelBodies ==
    {Body(<<IfNode(OneLessThanTwo, Body(<<>>))>>),
     Body(<<IfElseNode(OneLessThanTwo, Body(<<>>), Body(<<>>))>>),
     Body(<<WhileNode(OneLessThanTwo, Body(<<>>))>>)}

ComparisonOperators ==
    {"LESS", "LESS_OR_EQUAL", "GREATER", "GREATER_OR_EQUAL", "EQUAL", "NOT_EQUAL"}

\* 1 op 2
OneComparedWithTwo(compOp) ==
    ComparisonOperatorNode(compOp, <<ConstantValueNode(1), ConstantValueNode(2)>>)

\* { print(value); }
PrintBody(value) ==
    Body(<<FunctionCallNode("print", ArgumentsListNode(<<ConstantValueNode(value)>>))>>)

ConditionalForms == {"if", "if-else", "while"}

\* if (1 op 2) { print(1); }, with else { print(2); }, or while (1 op 2) { print(1); }
Conditional(form, compOp) ==
    CASE form = "if" -> IfNode(OneComparedWithTwo(compOp), PrintBody(1))
      [] form = "if-else" ->
            IfElseNode(OneComparedWithTwo(compOp), PrintBody(1), PrintBody(2))
      [] form = "while" -> WhileNode(OneComparedWithTwo(compOp), PrintBody(1))

\* g is never defined
UndeclaredCall == FunctionCallNode("g", ConstantArguments(0))

\* g(); x = 1 + g(); print(g()); return g();
UndeclaredCallBodies ==
    {Body(<<UndeclaredCall>>),
     Body(<<Assignment("x", OperatorNode("ADDITION", <<ConstantValueNode(1), UndeclaredCall>>))>>),
     Body(<<FunctionCallNode("print", ArgumentsListNode(<<UndeclaredCall>>))>>),
     Body(<<ReturnStatementNode(UndeclaredCall)>>)}

\* f(1, ..., m);
CallBody(m) == Body(<<FunctionCallNode("f", ConstantArguments(m))>>)

\* print(1); x = read(); x = sqrt(x);
BuiltInsBody ==
    Body(<<FunctionCallNode("print", ArgumentsListNode(<<ConstantValueNode(1)>>)),
           Assignment("x", FunctionCallNode("read", ArgumentsListNode(<<>>))),
           Assignment("x", FunctionCallNode("sqrt", ArgumentsListNode(<<VariableNode("x")>>)))>>)

GenDefinitions ==
    {FunctionDefinitionNode(name, Parameters(n), Body(<<>>)) :
        name \in GenFuncNames, n \in GenParameterCounts}
    \cup {FunctionDefinitionNode(name, Parameters(0), body) :
        name \in GenFuncNames, body \in LabelBodies}
    \cup {FunctionDefinitionNode("main", Parameters(0), body) :
        body \in UndeclaredCallBodies \cup {BuiltInsBody}
                \cup {CallBody(m) : m \in GenParameterCounts}}
    \cup {FunctionDefinitionNode("f", Parameters(0), Body(<<Conditional(form, compOp)>>)) :
        form \in ConditionalForms, compOp \in ComparisonOperators}

\* the exceptions that are a std::logic_error
LogicErrors == {"logic_error", "out_of_range"}

\* main after codegen: return exitCode, or one of its two catch clauses, or no
\* handler at all (the exception leaves main and std::terminate ends the process)
MainReturn ==
    /\ codegenResult.type \notin {"constructed", "walking"}
    /\ mainResult.state = "running"
    /\ mainResult' =
           CASE codegenResult.type = "returned" ->
                    [state |-> "returned", exitCode |-> "0", stderr |-> ""]
             [] codegenResult.type \in LogicErrors ->
                    [state |-> "returned", exitCode |-> "-1",
                     stderr |-> "Invalid expression: " \o codegenResult.what]
             [] codegenResult.type = "SyntaxError" ->
                    [state |-> "returned", exitCode |-> "-1",
                     stderr |-> "Syntax error: " \o codegenResult.what]
             [] OTHER ->
                    [state |-> "terminated", exitCode |-> "", stderr |-> ""]
    /\ UNCHANGED <<symVars, tokVars, optVars, genVars, machineVars>>

GenNext ==
    \/ CodegenBegin
    \/ \E statement \in GenDefinitions : VisitTopLevel(statement)
    \/ CodegenEnd
    \/ MainReturn

SpecGen == GenInit /\ [][GenNext]_vars

(***************************************************************************)
(* Claims about the code generator                                         *)
(***************************************************************************)
JumpMnemonics == {"JMP", "JMPL", "JMPLE", "JMPG", "JMPGE", "JMPE", "JMPNE"}

\* the lines of the listing that define labelName
LabelDefinitions(lines, labelName) ==
    {i \in DOMAIN lines : lines[i].op = "LABEL" /\ lines[i].arg = labelName}

\* C4: in the listing of any program that compiles, whatever the names of its
\* functions, every label a jump of an If, IfElse or While targets is defined
\* by exactly one line of the output.
C4_JumpLabelsDefinedOnce ==
    codegenResult.type = "returned" =>
        \A i \in DOMAIN out :
            out[i].op \in JumpMnemonics =>
                Cardinality(LabelDefinitions(out, out[i].arg)) = 1

BuiltInNames == {"read", "print", "sqrt"}

RECURSIVE CalledNames(_)
CalledNames(node) ==
    (IF node.type = "FUNCTION_CALL_NODE" THEN {node.name} ELSE {})
    \cup UNION {CalledNames(node.children[i]) : i \in DOMAIN node.children}

\* the functions whose definition has begun
DefinedNames(definitions) == {definitions[i].name : i \in DOMAIN definitions}

DistinctNames(definitions) ==
    \A i, j \in DOMAIN definitions : i # j => definitions[i].name # definitions[j].name

HasLine(op) == \E i \in DOMAIN out : out[i].op = op

\* C6: a call of a name that is neither a built-in nor a function whose
\* definition has begun raises SyntaxError "Undeclared function" wherever the
\* call stands (statement, operand, argument, returned expression); calls of
\* read, print and sqrt need no declaration and become IN, OUT and SQRT.
C6_UndeclaredCallIsSyntaxError ==
    (program # <<>> /\ DistinctNames(program)) =>
        LET last == program[Len(program)]
        IN  /\ CalledNames(last) \ (BuiltInNames \cup DefinedNames(program)) # {}
                => codegenResult = Result("SyntaxError", "Undeclared function")
            /\ last.children[2] = BuiltInsBody
                => /\ codegenResult.type \in {"walking", "returned"}
                   /\ HasLine("IN") /\ HasLine("OUT") /\ HasLine("SQRT")

HasNoArgMain(definitions) ==
    \E i \in DOMAIN definitions :
        /\ definitions[i].name = "main"
        /\ getChildrenNumber(definitions[i].children[1]) = 0

\* C7: codegen succeeds only if the program defines main with zero
\* parameters; without such a main it ends with a SyntaxError after the walk.
C7_MainWithoutParameters ==
    codegenResult.type = "returned" => HasNoArgMain(program)

\* C9: a call of a declared function is accepted exactly when it passes as
\* many arguments as the definition has parameters, for every number of
\* parameters; otherwise SyntaxError "Invalid arguments number" is raised and
\* no CALL is written.
C9_ArgumentsNumberChecked ==
    \A n, m \in GenParameterCounts :
        program = <<FunctionDefinitionNode("f", Parameters(n), Body(<<>>)),
                    FunctionDefinitionNode("main", Parameters(0), CallBody(m))>>
        => IF n = m
           THEN /\ codegenResult.type \in {"walking", "returned"}
                /\ \E i \in DOMAIN out : out[i] = Instruction("CALL", "f", 0, -1)
           ELSE /\ codegenResult = Result("SyntaxError", "Invalid arguments number")
                /\ \A i \in DOMAIN out : out[i] # Instruction("CALL", "f", 0, -1)

\* C11: after a successful codegen the scope stack has the depth it had
\* before codegen (every scope entered was left) and
\* nextLocalVariableAddress is 0.
C11_ScopesBalancedAndAddressZero ==
    codegenResult.type = "returned" =>
        /\ Len(variables) = Len(InitialVariables)
        /\ nextLocalVariableAddress = 0

\* C12: when codegen ends with an exception, the scope stack has the depth it
\* had before codegen: every scope entered was left on the way out.
C12_ScopesLeftOnError ==
    codegenResult.type \notin {"constructed", "walking", "returned"} =>
        Len(variables) = Len(InitialVariables)

C14_OnlyMainIsVoid ==
    (codegenResult.type \in {"walking", "returned"}) =>
        \A i \in DOMAIN program :
            /\ isVoid(getFunctionByName(program[i].name)) <=> program[i].name = "main"
            /\ (i = Len(program) /\ program[i].name = "main")
                   => ~(out[Len(out) - 1] = push(0) /\ out[Len(out)] = ret)

\* C20: whatever the pipeline raises (SyntaxError, RedefinitionError, a logic
\* error), main handles it: it writes a message with a category prefix to the
\* error stream and returns a non-zero exit code; it returns 0 only when the
\* pipeline succeeded.
C20_EveryDiagnosticHandled ==
    mainResult.state # "running" =>
        /\ mainResult.state = "returned"
        /\ mainResult.exitCode = "0" <=> codegenResult.type = "returned"
        /\ codegenResult.type # "returned" =>
               mainResult.stderr \in {"Syntax error: " \o codegenResult.what,
                                      "Invalid expression: " \o codegenResult.what,
                                      "Redefinition error: " \o codegenResult.what}

(***************************************************************************)
(* The stack machine that runs the listing                                 *)
(***************************************************************************)
Registers == {"AX", "BX", "CX"}
RamByRegister == {"[AX]", "[BX]", "[CX]"}
registerOf(arg) ==
    CASE arg = "[AX]" -> "AX"
      [] arg = "[BX]" -> "BX"
      [] arg = "[CX]" -> "CX"

\* the machine of the state
Machine ==
    [pc |-> pc, stack |-> stack, ram |-> ram, registers |-> registers,
     callStack |-> callStack, frameBases |-> frameBases, output |-> output,
     lastAccess |-> lastAccess, machineState |-> machineState]

Top(s) == s[Len(s)]
Second(s) == s[Len(s) - 1]
Pop(s, n) == SubSeq(s, 1, Len(s) - n)

\* RAM that was never written reads as 0
ReadRam(m, address) == IF address \in DOMAIN m.ram THEN m.ram[address] ELSE 0
WriteRam(m, address, value) ==
    [a \in DOMAIN m.ram \cup {address} |-> IF a = address THEN value ELSE m.ram[a]]

\* the access of a variable's slot a line makes: the address it uses, AX at
\* the entry of the running function, the local address of the variable
Access(m, kind, line) ==
    IF line.variable >= 0 /\ m.frameBases # <<>>
    THEN [kind |-> kind, address |-> m.registers[registerOf(line.arg)],
          base |-> Top(m.frameBases), variable |-> line.variable]
    ELSE m.lastAccess

Compare(mnemonic, a, b) ==
    CASE mnemonic = "JMPL" -> a < b
      [] mnemonic = "JMPLE" -> a <= b
      [] mnemonic = "JMPG" -> a > b
      [] mnemonic = "JMPGE" -> a >= b
      [] mnemonic = "JMPE" -> a = b
      [] mnemonic = "JMPNE" -> a # b

\* the line a jump or a call to labelName continues at
Target(lines, labelName) ==
    CHOOSE i \in LabelDefinitions(lines, labelName) :
        \A j \in LabelDefinitions(lines, labelName) : i <= j

Fault(m) == [m EXCEPT !.machineState = "fault"]

\* the operands a line takes from the stack
Operands(line) ==
    CASE line.op \in {"ADD", "SUB", "MUL"} \cup (JumpMnemonics \ {"JMP"}) -> 2
      [] line.op \in {"POP", "OUT"} -> 1
      [] OTHER -> 0

Execute(m, lines, line) ==
    LET next == [m EXCEPT !.pc = @ + 1, !.machineState = "running"]
    IN  IF Len(m.stack) < Operands(line) THEN Fault(m)
        ELSE CASE line.op = "LABEL" -> next
          [] line.op = "PUSH" /\ line.arg = "" ->
                [next EXCEPT !.stack = Append(@, line.value)]
          [] line.op = "PUSH" /\ line.arg \in Registers ->
                [next EXCEPT !.stack = Append(@, m.registers[line.arg])]
          [] line.op = "PUSH" /\ line.arg \in RamByRegister ->
                [next EXCEPT !.stack = Append(@, ReadRam(m, m.registers[registerOf(line.arg)])),
                             !.lastAccess = Access(m, "load", line)]
          [] line.op = "POP" /\ line.arg = "" ->
                [next EXCEPT !.stack = Pop(@, 1)]
          [] line.op = "POP" /\ line.arg \in Registers ->
                [next EXCEPT !.stack = Pop(@, 1), !.registers[line.arg] = Top(m.stack)]
          [] line.op = "POP" /\ line.arg \in RamByRegister ->
                [next EXCEPT !.stack = Pop(@, 1),
                             !.ram = WriteRam(m, m.registers[registerOf(line.arg)], Top(m.stack)),
                             !.lastAccess = Access(m, "store", line)]
          [] line.op = "ADD" ->
                [next EXCEPT !.stack = Append(Pop(@, 2), Second(m.stack) + Top(m.stack))]
          [] line.op = "SUB" ->
                [next EXCEPT !.stack = Append(Pop(@, 2), Second(m.stack) - Top(m.stack))]
          [] line.op = "MUL" ->
                [next EXCEPT !.stack = Append(Pop(@, 2), Second(m.stack) * Top(m.stack))]
          [] line.op = "JMP" ->
                IF LabelDefinitions(lines, line.arg) = {} THEN Fault(m)
                ELSE [next EXCEPT !.pc = Target(lines, line.arg)]
          [] line.op \in JumpMnemonics \ {"JMP"} ->
                IF LabelDefinitions(lines, line.arg) = {} THEN Fault(m)
                ELSE [next EXCEPT !.stack = Pop(@, 2),
                                  !.pc = IF Compare(line.op, Second(m.stack), Top(m.stack))
                                         THEN Target(lines, line.arg) ELSE m.pc + 1]
          [] line.op = "CALL" ->
                IF LabelDefinitions(lines, line.arg) = {} THEN Fault(m)
                ELSE [next EXCEPT !.pc = Target(lines, line.arg),
                                  !.callStack = Append(@, m.pc + 1),
                                  !.frameBases = Append(@, m.registers["AX"])]
          [] line.op = "RET" ->
                IF m.callStack = <<>> THEN Fault(m)
                ELSE [next EXCEPT !.pc = Top(m.callStack),
                                  !.callStack = Pop(@, 1),
                                  !.frameBases = Pop(@, 1)]
          [] line.op = "OUT" ->
                [next EXCEPT !.stack = Pop(@, 1), !.output = Append(@, Top(m.stack))]
          [] line.op = "HLT" -> [m EXCEPT !.machineState = "halted"]
          [] OTHER -> Fault(m)

\* run(assemblyFileName): the machine executes the line at pc
MachineStep ==
    /\ codegenResult.type = "returned"
    /\ machineState \in {"off", "running"}
    /\ \E m \in {IF pc \in DOMAIN out THEN Execute(Machine, out, out[pc]) ELSE Fault(Machine)} :
           /\ pc' = m.pc
           /\ stack' = m.stack
           /\ ram' = m.ram
           /\ registers' = m.registers
           /\ callStack' = m.callStack
           /\ frameBases' = m.frameBases
           /\ output' = m.output
           /\ lastAccess' = m.lastAccess
           /\ machineState' = m.machineState
    /\ UNCHANGED <<symVars, tokVars, optVars, genVars, mainResult>>

(***************************************************************************)
(* The programs of SpecRun                                                 *)
(***************************************************************************)
MaxRunParameters == 2
RunValues == {1, 2}

PrintCall(value) == FunctionCallNode("print", ArgumentsListNode(<<value>>))

\* func f(p1, ..., pn) { print(p1); ... print(pn); }
PrintParameters(n) ==
    FunctionDefinitionNode("f", Parameters(n),
        Body([i \in 1..n |-> PrintCall(VariableNode("p" \o ToString(i)))]))

\* func main() { f(e1, ..., en); }
MainCalls(values) ==
    FunctionDefinitionNode("main", Parameters(0),
        Body(<<FunctionCallNode("f",
                   ArgumentsListNode([i \in DOMAIN values |-> ConstantValueNode(values[i])]))>>))

YIsTwo == Assignment("y", ConstantValueNode(2))

\* bodies of main that read x after other declarations
VariableBodies ==
    {\* x = 1; y = 2; print(x); print(y);
     Body(<<Assignment("x", ConstantValueNode(1)), YIsTwo,
            PrintCall(VariableNode("x")), PrintCall(VariableNode("y"))>>),
     \* x = 1; { y = 2; } print(x);
     Body(<<Assignment("x", ConstantValueNode(1)), Body(<<YIsTwo>>),
            PrintCall(VariableNode("x"))>>),
     \* x = 1; if (1 < 2) { y = 2; } print(x);
     Body(<<Assignment("x", ConstantValueNode(1)), IfNode(OneLessThanTwo, Body(<<YIsTwo>>)),
            PrintCall(VariableNode("x"))>>)}

RunDefinitions ==
    {PrintParameters(n) : n \in 1..MaxRunParameters}
    \cup {MainCalls(values) : values \in UNION {[1..n -> RunValues] : n \in 1..MaxRunParameters}}
    \cup {FunctionDefinitionNode("main", Parameters(0), body) : body \in VariableBodies}

RunInit ==
    /\ SymIdle
    /\ TokIdle
    /\ OptIdle
    /\ GenIdle
    /\ RunIdle

RunNext ==
    \/ CodegenBegin
    \/ \E statement \in RunDefinitions : VisitTopLevel(statement)
    \/ CodegenEnd
    \/ MachineStep

SpecRun == RunInit /\ [][RunNext]_vars

(***************************************************************************)
(* Claims about the code that runs                                         *)
(***************************************************************************)
\* C2: at every load or store of a variable, the RAM address the emitted code
\* computes (AX minus the emitted offset) is AX at the entry of the function
\* plus the local address of the variable, also after a nested block, branch
\* or loop body that declared variables.
C2_VariableAddress ==
    lastAccess.kind # "none" => lastAccess.address = lastAccess.base + lastAccess.variable

\* the line of the listing that calls f
CallLine == CHOOSE i \in DOMAIN out : out[i] = Instruction("CALL", "f", 0, -1)

\* C10: for a call f(e1, ..., en) of f(p1, ..., pn) the caller pushes en first
\* and e1 last, and the callee stores ei in the slot of pi, at local address
\* 8 * (i - 1), so that reading pi in the body yields ei.
C10_ArgumentsReachParameters ==
    \A n \in 1..MaxRunParameters : \A values \in [1..n -> RunValues] :
        program = <<PrintParameters(n), MainCalls(values)>> =>
            /\ codegenResult.type \in {"walking", "returned"}
            /\ \A i \in 1..n : out[CallLine - i] = push(values[i])
            /\ machineState = "halted" =>
                   /\ output = values
                   /\ \A i \in 1..n : ReadRam(Machine, VARIABLE_SIZE_IN_BYTES * (i - 1)) = values[i]

C10_Witness ==
    /\ program = <<PrintParameters(2), MainCalls(<<1, 2>>)>>
    /\ machineState = "halted"
    /\ output = <<1, 2>>

\* the mnemonic that jumps exactly when the comparison is false
ComplementaryMnemonic(compOp) ==
    CASE compOp = "LESS" -> "JMPGE"
      [] compOp = "LESS_OR_EQUAL" -> "JMPG"
      [] compOp = "GREATER" -> "JMPLE"
      [] compOp = "GREATER_OR_EQUAL" -> "JMPL"
      [] compOp = "EQUAL" -> "JMPNE"
      [] compOp = "NOT_EQUAL" -> "JMPE"

\* the comparison of the source language
ComparisonHolds(compOp, a, b) ==
    CASE compOp = "LESS" -> a < b
      [] compOp = "LESS_OR_EQUAL" -> a <= b
      [] compOp = "GREATER" -> a > b
      [] compOp = "GREATER_OR_EQUAL" -> a >= b
      [] compOp = "EQUAL" -> a = b
      [] compOp = "NOT_EQUAL" -> a # b

\* the lines of { print(value); }
PrintLines(value) == <<push(value), Instruction("OUT", "", 0, -1)>>

ConditionalJumps(lines) ==
    {i \in DOMAIN lines : lines[i].op \in JumpMnemonics \ {"JMP"}}

\* C25: for each of the six comparison operators the conditional jump of an
\* If, IfElse or While comes right after the two operands, uses the
\* complementary mnemonic and targets the label defined after the body (If),
\* after the body and the jump over the else body (IfElse), or after the body
\* and the jump back to the loop start (While): it is taken, and the body
\* skipped, exactly when the comparison of the source is false. The negation
\* map of the operators is an involution without fixed points.
C25_NegatedJumps ==
    /\ \A compOp \in ComparisonOperators :
          /\ negateCompOp(compOp) \in ComparisonOperators \ {compOp}
          /\ negateCompOp(negateCompOp(compOp)) = compOp
    /\ \A form \in ConditionalForms, compOp \in ComparisonOperators :
          (/\ program = <<FunctionDefinitionNode("f", Parameters(0),
                                                  Body(<<Conditional(form, compOp)>>))>>
           /\ codegenResult.type = "walking") =>
              /\ Cardinality(ConditionalJumps(out)) = 1
              /\ \A j \in ConditionalJumps(out) :
                    LET label == out[j].arg
                        body == SubSeq(out, j + 1, j + 2)
                    IN  /\ out[j - 2] = push(1) /\ out[j - 1] = push(2)
                        /\ out[j].op = ComplementaryMnemonic(compOp)
                        /\ \A a, b \in 1..2 :
                              Compare(out[j].op, a, b) <=> ~ComparisonHolds(compOp, a, b)
                        /\ body = PrintLines(1)
                        /\ CASE form = "if" ->
                                    LabelDefinitions(out, label) = {j + 3}
                              [] form = "if-else" ->
                                    /\ out[j + 3].op = "JMP"
                                    /\ LabelDefinitions(out, label) = {j + 4}
                                    /\ SubSeq(out, j + 5, j + 6) = PrintLines(2)
                                    /\ LabelDefinitions(out, out[j + 3].arg) = {j + 7}
                              [] form = "while" ->
                                    /\ out[j + 3].op = "JMP"
                                    /\ LabelDefinitions(out, out[j + 3].arg) = {j - 3}
                                    /\ LabelDefinitions(out, label) = {j + 4}

\* the loop while (1 >= 2) { print(1); } has been compiled with JMPL
C25_Witness ==
    /\ program = <<FunctionDefinitionNode("f", Parameters(0),
                                          Body(<<Conditional("while", "GREATER_OR_EQUAL")>>))>>
    /\ codegenResult.type = "walking"
    /\ \E j \in DOMAIN out : out[j].op = "JMPL"

(***************************************************************************)
(* The programs of SpecCall: statements, calls and returns                 *)
(***************************************************************************)
One == ConstantValueNode(1)
OnePlus(node) == OperatorNode("ADDITION", <<One, node>>)

\* func f(p1, ..., pn) { statements }
Callee(n, statements) == FunctionDefinitionNode("f", Parameters(n), Body(statements))

\* the definitions of f whose return statements return an expression that
\* returnsNonVoid reports as yielding a value
ValueCallees ==
    {\* func f() { }
     Callee(0, <<>>),
     \* func f() { return 1; }
     Callee(0, <<ReturnStatementNode(One)>>),
     \* func f(p1) { return p1; }
     Callee(1, <<ReturnStatementNode(VariableNode("p1"))>>),
     \* func f(p1) { if (p1 < 2) { return 1; } }
     Callee(1, <<IfNode(ComparisonOperatorNode("LESS", <<VariableNode("p1"),
                                                           ConstantValueNode(2)>>),
                        Body(<<ReturnStatementNode(One)>>))>>),
     \* func f(p1, p2) { x = 1; return p1 + p2; }
     Callee(2, <<Assignment("x", One),
                 ReturnStatementNode(OperatorNode("ADDITION", <<VariableNode("p1"),
                                                                VariableNode("p2")>>))>>),
     \* func f() { return 1 + print(1); }
     Callee(0, <<ReturnStatementNode(OnePlus(PrintCall(One)))>>)}

\* func f() { return print(1); }
ReturnsPrint == Callee(0, <<ReturnStatementNode(PrintCall(One))>>)

Callees == ValueCallees \cup {ReturnsPrint}

\* f(e1, ..., en)
CallF(values) ==
    FunctionCallNode("f",
        ArgumentsListNode([i \in DOMAIN values |-> ConstantValueNode(values[i])]))

ArgumentValues == UNION {[1..n -> RunValues] : n \in 0..MaxRunParameters}

\* func main() { y = 1; f(e1, ..., en); }: AX is 8 when f is called
Caller(values) ==
    FunctionDefinitionNode("main", Parameters(0), Body(<<Assignment("y", One), CallF(values)>>))

\* the statements other than a return that main is compiled with
SingleStatements ==
    {One,                                                   \* 1;
     OnePlus(ConstantValueNode(2)),                         \* 1 + 2;
     OperatorNode("ARITHMETIC_NEGATION", <<One>>),          \* -1;
     Assignment("x", One),                                  \* x = 1;
     Assignment("x", OnePlus(One)),                         \* x = 1 + 1;
     PrintCall(One),                                        \* print(1);
     CallF(<<>>),                                           \* f();
     IfNode(OneLessThanTwo, Body(<<One>>)),                 \* if (1 < 2) { 1; }
     Conditional("if-else", "EQUAL"),
     Conditional("while", "GREATER"),
     Assignment("x", PrintCall(One))}                       \* x = print(1);

\* func main() { statement } and func main() { x = 1; x; }
StatementBodies ==
    {<<statement>> : statement \in SingleStatements}
    \cup {<<Assignment("x", One), VariableNode("x")>>}

StatementMain(statements) ==
    FunctionDefinitionNode("main", Parameters(0), Body(statements))

CallDefinitions ==
    Callees
    \cup {Caller(values) : values \in ArgumentValues}
    \cup {StatementMain(statements) : statements \in StatementBodies}

CallNext ==
    \/ CodegenBegin
    \/ \E statement \in CallDefinitions : VisitTopLevel(statement)
    \/ CodegenEnd
    \/ MachineStep

SpecCall == RunInit /\ [][CallNext]_vars

(***************************************************************************)
(* Claims about statements, calls and returns                              *)
(***************************************************************************)
\* the kinds of statement that yield a value
YieldsValue(statement) ==
    \/ statement.type \in {"CONSTANT_VALUE_NODE", "VARIABLE_NODE"}
    \/ statement.type = "OPERATOR_NODE" /\ statement.name # "ASSIGNMENT"
    \/ statement.type = "FUNCTION_CALL_NODE" /\ statement.name # "print"

\* main is the last function of the listing: its body ends where the implicit
\* return POP AX; PUSH 0; RET begins
MainEpilog == Len(out) - 2

\* the machine is in main, called by the first lines of the listing
InMain == machineState = "running" /\ Len(callStack) = 1

\* C26: in the listing of main the line after the code of the last statement of
\* the body is a POP exactly when that statement yields a value, and when the
\* machine reaches the end of the body the operand stack is as deep as at the
\* start of the body, holding only the saved AX.
C26_StatementsKeepStackDepth ==
    \A statements \in StatementBodies :
        (/\ program # <<>>
         /\ program[Len(program)] = StatementMain(statements)
         /\ codegenResult.type = "returned") =>
            /\ out[MainEpilog] = functionEpilog
            /\ out[MainEpilog - 1] = pop <=> YieldsValue(statements[Len(statements)])
            /\ (InMain /\ pc = MainEpilog) => Len(stack) = 1

\* the machine is about to return from f, called by main
ReturningFromF ==
    /\ machineState = "running"
    /\ Len(callStack) = 2
    /\ pc \in DOMAIN out
    /\ out[pc] = ret

\* C27: when f, called by main with n arguments above main's saved AX, returns
\* (from a return statement or from the end of its body), the n arguments are
\* gone and exactly one value lies above main's saved AX, whatever expression
\* is returned, a call of print included.
C27_ReturnLeavesOneValue ==
    \A callee \in Callees, values \in ArgumentValues :
        (/\ program = <<callee, Caller(values)>>
         /\ codegenResult.type = "returned"
         /\ ReturningFromF) => Len(stack) = 2

\* C28: when a function whose return statements return value-yielding
\* expressions is about to return, AX is what it was at the call, with or
\* without parameters.
C28_AXRestoredOnReturn ==
    \A callee \in ValueCallees, values \in ArgumentValues :
        (/\ program = <<callee, Caller(values)>>
         /\ codegenResult.type = "returned"
         /\ ReturningFromF) => registers["AX"] = Top(frameBases)

(***************************************************************************)
(* The recursive parser                                                    *)
(***************************************************************************)
MaxExprLen == 5

VariableDeclarationNode(children) == Node("VARIABLE_DECLARATION_NODE", "", 0, children)
\* getAssignment passes no token: the node has no origin
AssignmentOperatorNode(variable, value) ==
    Node("ASSIGNMENT_OPERATOR_NODE", "", 0, <<variable, value>>)

\* the name of an identifier token as a string, for the identifiers of the inputs
NameString(text) ==
    CASE text = <<"e">> -> "e"
      [] text = <<"f">> -> "f"
      [] OTHER -> "other"

\* the value strtod returns for a token made of digits
RECURSIVE Value(_)
Value(text) ==
    IF text = <<>> THEN 0
    ELSE 10 * Value(Take(text, Len(text) - 1)) + (IF text[Len(text)] = "1" THEN 1 ELSE 0)

\* tokenize(expression): the loop of addNextToken calls
RECURSIVE tokenize(_, _, _)
tokenize(s, emitted, origin) ==
    LET spaces == RunLength(s, Spaces)
        rest == Drop(s, spaces)
        at == SkipOrigin(Take(s, spaces), origin)
    IN  IF rest = <<>> THEN [tokens |-> emitted, result |-> "returned"]
        ELSE LET token == NextToken(rest, emitted, at)
             IN  IF token.type = "INVALID"
                 THEN [tokens |-> emitted, result |-> "SyntaxError"]
                 ELSE tokenize(Drop(rest, Len(token.text)), Append(emitted, token),
                               [line |-> at.line, column |-> at.column + Len(token.text)])

\* what a parsing function leaves: the node it returns, the cursor after it,
\* and the message of the SyntaxError it throws ("" when it returns)
ParseState(node, pos, thrown) == [node |-> node, pos |-> pos, thrown |-> thrown]
Parsed(node, pos) == ParseState(node, pos, "")
SyntaxErrorAt(pos, what) == ParseState(NoNode, pos, what)

\* pos < tokens.size() and tokens[pos] is of the type (and of the kind, if one is given)
IsToken(toks, pos, type, kind) ==
    /\ pos <= Len(toks)
    /\ toks[pos].type = type
    /\ kind = "" \/ toks[pos].kind = kind

isExpressionOperator(token) ==
    token.type = "OPERATOR" /\ token.kind \in {"ADDITION", "SUBTRACTION"}

\* a faulty variant: subtraction is taken for an operator of a term
isTermOperator_WithSubtraction(token) ==
    token.type = "OPERATOR" /\ token.kind \in {"MULTIPLICATION", "DIVISION", "SUBTRACTION"}

isTermOperator(token) ==
    token.type = "OPERATOR" /\ token.kind \in {"MULTIPLICATION", "DIVISION"}

RECURSIVE getExpression(_, _)
RECURSIVE getFunctionScopeStatement(_, _)

\* the element of a set of one element: in Only({e : r \in {call}}) the call is made
\* once and e is its continuation, with r the value the call returned
Only(set) == CHOOSE element \in set : TRUE

\* getVariable, with getId
getVariable(toks, pos) ==
    IF pos > Len(toks) THEN SyntaxErrorAt(pos, "Expected id, but got EOF")
    ELSE IF toks[pos].type # "ID" THEN SyntaxErrorAt(pos, "Expected id")
    ELSE Parsed(At(VariableNode(NameString(toks[pos].text)), toks[pos].origin), pos + 1)

\* the while loop of getArgumentsList
RECURSIVE getArgumentsLoop(_, _, _)
getArgumentsLoop(toks, pos, arguments) ==
    IF IsToken(toks, pos, "COMMA", "")
    THEN Only({IF argument.thrown # "" THEN argument
               ELSE getArgumentsLoop(toks, argument.pos, Append(arguments, argument.node)) :
               argument \in {getExpression(toks, pos + 1)}})
    ELSE Parsed(ArgumentsListNode(arguments), pos)

getArgumentsList(toks, pos) ==
    IF pos > Len(toks) THEN SyntaxErrorAt(pos, "Expected arguments list, but got EOF")
    ELSE IF isCloseRoundParenthesisToken(toks[pos]) THEN Parsed(ArgumentsListNode(<<>>), pos)
    ELSE Only({IF first.thrown # "" THEN first
               ELSE getArgumentsLoop(toks, first.pos, <<first.node>>) :
               first \in {getExpression(toks, pos)}})

getFunctionCall(toks, pos) ==
    IF pos > Len(toks) THEN SyntaxErrorAt(pos, "Expected function call, but got EOF")
    ELSE IF toks[pos].type # "ID" THEN SyntaxErrorAt(pos, "Expected id")
    ELSE IF pos + 1 > Len(toks) THEN SyntaxErrorAt(pos + 1, "Expected '(', but got EOF")
    ELSE IF ~IsToken(toks, pos + 1, "PARENTHESIS", "OPEN_ROUND")
         THEN SyntaxErrorAt(pos + 1, "Expected '('")
    ELSE Only({IF arguments.thrown # "" THEN arguments
               ELSE IF arguments.pos > Len(toks)
                    THEN SyntaxErrorAt(arguments.pos, "Expected ')', but got EOF")
               ELSE IF ~isCloseRoundParenthesisToken(toks[arguments.pos])
                    THEN SyntaxErrorAt(arguments.pos, "Expected ')'")
               ELSE Parsed(At(FunctionCallNode(NameString(toks[pos].text), arguments.node),
                              toks[pos].origin),
                           arguments.pos + 1) :
               arguments \in {getArgumentsList(toks, pos + 2)}})

RECURSIVE getFactor(_, _)
getFactor(toks, pos) ==
    IF pos > Len(toks)
    THEN SyntaxErrorAt(pos, "Expected number, identifier, '(' or unary operator, but got EOF")
    ELSE IF /\ toks[pos].type = "OPERATOR"
            /\ toks[pos].kind \in {"ARITHMETIC_NEGATION", "UNARY_ADDITION"}
         THEN Only({IF operand.thrown # "" THEN operand
                    ELSE Parsed(At(OperatorNode(toks[pos].kind, <<operand.node>>),
                                   toks[pos].origin),
                                operand.pos) :
                    operand \in {getFactor(toks, pos + 1)}})
    ELSE IF toks[pos].type = "CONSTANT_VALUE"
         THEN Parsed(ConstantValueNode(Value(toks[pos].text)), pos + 1)
    ELSE IF toks[pos].type = "ID"
         THEN IF IsToken(toks, pos + 1, "PARENTHESIS", "OPEN_ROUND")
              THEN getFunctionCall(toks, pos)
              ELSE getVariable(toks, pos)
    ELSE IF ~IsToken(toks, pos, "PARENTHESIS", "OPEN_ROUND")
         THEN SyntaxErrorAt(pos, "Expected number, identifier,  '(' or unary operator")
    ELSE Only({IF result.thrown # "" THEN result
               ELSE IF result.pos > Len(toks)
                    THEN SyntaxErrorAt(result.pos, "Expected ')', but got EOF")
               ELSE IF ~isCloseRoundParenthesisToken(toks[result.pos])
                    THEN SyntaxErrorAt(result.pos, "Expected ')'")
               ELSE Parsed(result.node, result.pos + 1) :
               result \in {getExpression(toks, pos + 1)}})

\* the while loop of getTerm, entered with the first factor as the result
RECURSIVE getTermLoop(_, _)
getTermLoop(toks, result) ==
    IF result.thrown = "" /\ result.pos <= Len(toks) /\ isTermOperator(toks[result.pos])
    THEN Only({IF factor.thrown # "" THEN factor
               ELSE getTermLoop(toks,
                        Parsed(At(OperatorNode(toks[result.pos].kind,
                                               <<result.node, factor.node>>),
                                  toks[result.pos].origin),
                               factor.pos)) :
               factor \in {getFactor(toks, result.pos + 1)}})
    ELSE result

getTerm(toks, pos) ==
    Only({getTermLoop(toks, factor) : factor \in {getFactor(toks, pos)}})

\* the while loop of getExpression, entered with the first term as the result
RECURSIVE getExpressionLoop(_, _)
getExpressionLoop(toks, result) ==
    IF result.thrown = "" /\ result.pos <= Len(toks) /\ isExpressionOperator(toks[result.pos])
    THEN Only({IF term.thrown # "" THEN term
               ELSE getExpressionLoop(toks,
                        Parsed(At(OperatorNode(toks[result.pos].kind,
                                               <<result.node, term.node>>),
                                  toks[result.pos].origin),
                               term.pos)) :
               term \in {getTerm(toks, result.pos + 1)}})
    ELSE result

getExpression(toks, pos) ==
    IF pos > Len(toks) THEN SyntaxErrorAt(pos, "Expected expression, but got EOF")
    ELSE Only({getExpressionLoop(toks, term) : term \in {getTerm(toks, pos)}})

\* the rest of getComparisonExpression, after its left operand
getComparisonRight(toks, lhs) ==
    IF lhs.thrown # "" THEN lhs
    ELSE IF lhs.pos > Len(toks)
         THEN SyntaxErrorAt(lhs.pos, "Expected comparison operator, but got EOF")
    ELSE IF toks[lhs.pos].type # "COMPARISON_OPERATOR"
         THEN SyntaxErrorAt(lhs.pos, "Expected comparison operator")
    ELSE Only({IF rhs.thrown # "" THEN rhs
               ELSE Parsed(At(ComparisonOperatorNode(toks[lhs.pos].kind,
                                                     <<lhs.node, rhs.node>>),
                              toks[lhs.pos].origin),
                           rhs.pos) :
               rhs \in {getExpression(toks, lhs.pos + 1)}})

getComparisonExpression(toks, pos) ==
    Only({getComparisonRight(toks, lhs) : lhs \in {getExpression(toks, pos)}})

\* getIfStatementHeader and getWhileStatementHeader: keyword '(' ComparisonExpression ')'
getStatementHeader(toks, pos, keyword) ==
    IF pos > Len(toks) THEN SyntaxErrorAt(pos, "Expected keyword, but got EOF")
    ELSE IF toks[pos].type # keyword THEN SyntaxErrorAt(pos, "Expected keyword")
    ELSE IF pos + 1 > Len(toks) THEN SyntaxErrorAt(pos + 1, "Expected '(', but got EOF")
    ELSE IF ~IsToken(toks, pos + 1, "PARENTHESIS", "OPEN_ROUND")
         THEN SyntaxErrorAt(pos + 1, "Expected '('")
    ELSE Only({IF condition.thrown # "" THEN condition
               ELSE IF condition.pos > Len(toks)
                    THEN SyntaxErrorAt(condition.pos, "Expected ')', but got EOF")
               ELSE IF ~isCloseRoundParenthesisToken(toks[condition.pos])
                    THEN SyntaxErrorAt(condition.pos, "Expected ')'")
               ELSE Parsed(condition.node, condition.pos + 1) :
               condition \in {getComparisonExpression(toks, pos + 2)}})

\* a faulty variant: the body is wrapped whatever it is
wrapIntoBlockIfNeeded_Always(node) ==
    BlockNode(StatementsNode(<<node>>))

wrapIntoBlockIfNeeded(node) ==
    IF node.type = "BLOCK_NODE" THEN node ELSE BlockNode(StatementsNode(<<node>>))

\* the rest of getIfStatement, after the body
getElseBody(toks, condition, body) ==
    IF body.thrown # "" THEN body
    ELSE IF IsToken(toks, body.pos, "ELSE", "")
         THEN Only({IF elseBody.thrown # "" THEN elseBody
                    ELSE Parsed(IfElseNode(condition.node,
                                           wrapIntoBlockIfNeeded(body.node),
                                           wrapIntoBlockIfNeeded(elseBody.node)),
                                elseBody.pos) :
                    elseBody \in {getFunctionScopeStatement(toks, body.pos + 1)}})
    ELSE Parsed(IfNode(condition.node, wrapIntoBlockIfNeeded(body.node)), body.pos)

getIfStatement(toks, pos) ==
    Only({IF condition.thrown # "" THEN condition
          ELSE Only({getElseBody(toks, condition, body) :
                     body \in {getFunctionScopeStatement(toks, condition.pos)}}) :
          condition \in {getStatementHeader(toks, pos, "IF")}})

getWhileStatement(toks, pos) ==
    Only({IF condition.thrown # "" THEN condition
          ELSE Only({IF body.thrown # "" THEN body
                     ELSE Parsed(WhileNode(condition.node,
                                           wrapIntoBlockIfNeeded(body.node)),
                                 body.pos) :
                     body \in {getFunctionScopeStatement(toks, condition.pos)}}) :
          condition \in {getStatementHeader(toks, pos, "WHILE")}})

\* the token at pos is ';': the statement is complete, the cursor moves past it
ExpectSemicolon(toks, statement) ==
    IF statement.thrown # "" THEN statement
    ELSE IF statement.pos > Len(toks)
         THEN SyntaxErrorAt(statement.pos, "Expected ';', but got EOF")
    ELSE IF toks[statement.pos].type # "SEMICOLON"
         THEN SyntaxErrorAt(statement.pos, "Expected ';'")
    ELSE Parsed(statement.node, statement.pos + 1)

getReturnStatement(toks, pos) ==
    Only({IF complete.thrown # "" THEN complete
          ELSE Parsed(ReturnStatementNode(complete.node), complete.pos) :
          complete \in {ExpectSemicolon(toks, returnedExpression) :
                        returnedExpression \in {getExpression(toks, pos + 1)}}})

getVariableDeclaration(toks, pos) ==
    Only({IF variable.thrown # "" THEN variable
          ELSE IF variable.pos > Len(toks)
               THEN SyntaxErrorAt(variable.pos, "Expected '=' or ';', but got EOF")
          ELSE IF IsToken(toks, variable.pos, "OPERATOR", "ASSIGNMENT")
               THEN Only({IF initialValue.thrown # "" THEN initialValue
                          ELSE Parsed(VariableDeclarationNode(<<variable.node,
                                                                initialValue.node>>),
                                      initialValue.pos) :
                          initialValue \in {ExpectSemicolon(toks, value) :
                                            value \in {getExpression(toks, variable.pos + 1)}}})
          ELSE Only({IF complete.thrown # "" THEN complete
                     ELSE Parsed(VariableDeclarationNode(<<variable.node>>), complete.pos) :
                     complete \in {ExpectSemicolon(toks, variable)}}) :
          variable \in {getVariable(toks, pos + 1)}})

isAssignment(toks, pos) ==
    /\ pos + 1 <= Len(toks)
    /\ toks[pos].type = "ID"
    /\ toks[pos + 1].type = "OPERATOR" /\ toks[pos + 1].kind = "ASSIGNMENT"

\* called when isAssignment holds
getAssignment(toks, pos) ==
    Only({IF assignedExpression.thrown # "" THEN assignedExpression
          ELSE Parsed(AssignmentOperatorNode(id.node, assignedExpression.node),
                      assignedExpression.pos) :
          id \in {getVariable(toks, pos)},
          assignedExpression \in {getExpression(toks, pos + 2)}})

\* the while loop of getFunctionScopeStatements
RECURSIVE getFunctionScopeStatements(_, _, _)
getFunctionScopeStatements(toks, pos, statements) ==
    IF pos <= Len(toks) /\ ~IsToken(toks, pos, "PARENTHESIS", "CLOSE_CURLY")
    THEN Only({IF statement.thrown # "" THEN statement
               ELSE getFunctionScopeStatements(toks, statement.pos,
                                               Append(statements, statement.node)) :
               statement \in {getFunctionScopeStatement(toks, pos)}})
    ELSE Parsed(StatementsNode(statements), pos)

getBlock(toks, pos) ==
    IF pos > Len(toks) THEN SyntaxErrorAt(pos, "Expected '{', but got EOF")
    ELSE IF ~IsToken(toks, pos, "PARENTHESIS", "OPEN_CURLY")
         THEN SyntaxErrorAt(pos, "Expected '{'")
    ELSE Only({IF statements.thrown # "" THEN statements
               ELSE IF statements.pos > Len(toks)
                    THEN SyntaxErrorAt(statements.pos, "Expected '}', but got EOF")
               ELSE IF ~IsToken(toks, statements.pos, "PARENTHESIS", "CLOSE_CURLY")
                    THEN SyntaxErrorAt(statements.pos, "Expected '}'")
               ELSE Parsed(BlockNode(statements.node), statements.pos + 1) :
               statements \in {getFunctionScopeStatements(toks, pos + 1, <<>>)}})

getFunctionScopeStatement(toks, pos) ==
    IF pos > Len(toks)
    THEN SyntaxErrorAt(pos, "Expected function scope statement, but got EOF")
    ELSE IF IsToken(toks, pos, "PARENTHESIS", "OPEN_CURLY") THEN getBlock(toks, pos)
    ELSE IF toks[pos].type = "IF" THEN getIfStatement(toks, pos)
    ELSE IF toks[pos].type = "WHILE" THEN getWhileStatement(toks, pos)
    ELSE IF toks[pos].type = "VAR" THEN getVariableDeclaration(toks, pos)
    ELSE IF toks[pos].type = "RETURN" THEN getReturnStatement(toks, pos)
    ELSE Only({ExpectSemicolon(toks, statement) :
               statement \in {IF isAssignment(toks, pos)
                              THEN getAssignment(toks, pos)
                              ELSE getExpression(toks, pos)}})

\* the while loop of getParametersList
RECURSIVE getParametersLoop(_, _, _)
getParametersLoop(toks, pos, parameters) ==
    IF IsToken(toks, pos, "COMMA", "")
    THEN Only({IF parameter.thrown # "" THEN parameter
               ELSE getParametersLoop(toks, parameter.pos,
                                      Append(parameters, parameter.node)) :
               parameter \in {getVariable(toks, pos + 1)}})
    ELSE Parsed(ParametersListNode(parameters), pos)

getParametersList(toks, pos) ==
    IF pos > Len(toks) THEN SyntaxErrorAt(pos, "Expected parameters list, but got EOF")
    ELSE IF isCloseRoundParenthesisToken(toks[pos]) THEN Parsed(ParametersListNode(<<>>), pos)
    ELSE Only({IF first.thrown # "" THEN first
               ELSE getParametersLoop(toks, first.pos, <<first.node>>) :
               first \in {getVariable(toks, pos)}})

\* the rest of getFunctionDefinition, after the parameters list
getDefinitionBody(toks, pos, parameters) ==
    IF parameters.thrown # "" THEN parameters
    ELSE IF parameters.pos > Len(toks)
         THEN SyntaxErrorAt(parameters.pos, "Expected ')', but got EOF")
    ELSE IF ~isCloseRoundParenthesisToken(toks[parameters.pos])
         THEN SyntaxErrorAt(parameters.pos, "Expected ')'")
    ELSE Only({IF definition.thrown # "" THEN definition
               ELSE Parsed(At(FunctionDefinitionNode(NameString(toks[pos + 1].text),
                                                     parameters.node, definition.node),
                              toks[pos + 1].origin),
                           definition.pos) :
               definition \in {getBlock(toks, parameters.pos + 1)}})

\* called at a 'func' token
getFunctionDefinition(toks, pos) ==
    IF pos + 1 > Len(toks) THEN SyntaxErrorAt(pos + 1, "Expected id, but got EOF")
    ELSE IF toks[pos + 1].type # "ID" THEN SyntaxErrorAt(pos + 1, "Expected id")
    ELSE IF pos + 2 > Len(toks) THEN SyntaxErrorAt(pos + 2, "Expected '(', but got EOF")
    ELSE IF ~IsToken(toks, pos + 2, "PARENTHESIS", "OPEN_ROUND")
         THEN SyntaxErrorAt(pos + 2, "Expected '('")
    ELSE Only({getDefinitionBody(toks, pos, parameters) :
               parameters \in {getParametersList(toks, pos + 3)}})

\* the while loop of getOuterScopeStatements, with getOuterScopeStatement
RECURSIVE getOuterScopeStatements(_, _, _)
getOuterScopeStatements(toks, pos, statements) ==
    IF pos <= Len(toks) /\ ~IsToken(toks, pos, "PARENTHESIS", "CLOSE_CURLY")
    THEN IF toks[pos].type # "FUNC" THEN SyntaxErrorAt(pos, "Expected function definition")
         ELSE Only({IF statement.thrown # "" THEN statement
                    ELSE getOuterScopeStatements(toks, statement.pos,
                                                 Append(statements, statement.node)) :
                    statement \in {getFunctionDefinition(toks, pos)}})
    ELSE Parsed(StatementsNode(statements), pos)

\* a faulty variant: the tokens left after the outer statements are not looked at
buildASTRecursively_TokensLeft(toks) ==
    getOuterScopeStatements(toks, 1, <<>>)

\* buildASTRecursively, after tokenize
buildASTRecursively(toks) ==
    Only({IF root.thrown = "" /\ root.pos <= Len(toks)
          THEN SyntaxErrorAt(root.pos, "Invalid symbol")
          ELSE root :
          root \in {getOuterScopeStatements(toks, 1, <<>>)}})

(***************************************************************************)
(* SpecParse: getExpression and buildASTRecursively applied to texts       *)
(***************************************************************************)
\* the characters of the expressions that are enumerated
ExprChars == {"e", "+", "-", "*", "/", "(", ")"}

\* the characters of a lexeme of the program texts
Chars(lexeme) ==
    CASE lexeme = "func" -> <<"f", "u", "n", "c">>
      [] lexeme = "if" -> <<"i", "f">>
      [] lexeme = "else" -> <<"e", "l", "s", "e">>
      [] lexeme = "while" -> <<"w", "h", "i", "l", "e">>
      [] lexeme = "return" -> <<"r", "e", "t", "u", "r", "n">>
      [] lexeme = "var" -> <<"v", "a", "r">>
      [] OTHER -> <<lexeme>>

RECURSIVE Text(_)
Text(lexemes) ==
    IF lexemes = <<>> THEN <<>> ELSE Chars(Head(lexemes)) \o Text(Tail(lexemes))

\* e = 1
AssignOne == AssignmentOperatorNode(VariableNode("e"), ConstantValueNode(1))
\* 0 < 1
ZeroLessThanOne ==
    ComparisonOperatorNode("LESS", <<ConstantValueNode(0), ConstantValueNode(1)>>)
ConditionLexemes == <<"(", "0", "<", "1", ")">>

\* statements as they are written and the node each one stands for
StatementForms ==
    {[lexemes |-> <<"e", "=", "1", ";">>, node |-> AssignOne],
     [lexemes |-> <<"e", ";">>, node |-> VariableNode("e")],
     [lexemes |-> <<"return", " ", "1", ";">>, node |-> ReturnStatementNode(ConstantValueNode(1))],
     [lexemes |-> <<"var", " ", "e", ";">>, node |-> VariableDeclarationNode(<<VariableNode("e")>>)],
     [lexemes |-> <<"{", "}">>, node |-> Body(<<>>)],
     [lexemes |-> <<"{", "e", "=", "1", ";", "}">>, node |-> Body(<<AssignOne>>)],
     [lexemes |-> <<"{", "{", "e", "=", "1", ";", "}", "}">>, node |-> Body(<<Body(<<AssignOne>>)>>)],
     [lexemes |-> <<"while", "(", "0", "<", "1", ")", "{", "}">>,
      node |-> WhileNode(ZeroLessThanOne, Body(<<>>))]}

\* a conditional without else: as the body before an else it would take the else
NestedIfForm ==
    [lexemes |-> <<"if", "(", "0", "<", "1", ")", "e", "=", "1", ";">>,
     node |-> IfNode(ZeroLessThanOne, Body(<<AssignOne>>))]

\* func f() { statement }
FunctionLexemes(statement) == <<"func", " ", "f", "(", ")", "{">> \o statement \o <<"}">>
IfLexemes(body) == <<"if">> \o ConditionLexemes \o body.lexemes
IfElseLexemes(ifBody, elseBody) ==
    <<"if">> \o ConditionLexemes \o ifBody.lexemes \o <<"else", " ">> \o elseBody.lexemes
WhileLexemes(body) == <<"while">> \o ConditionLexemes \o body.lexemes

ProgramTexts ==
    {Text(FunctionLexemes(IfLexemes(body))) : body \in StatementForms \cup {NestedIfForm}}
    \cup {Text(FunctionLexemes(WhileLexemes(body))) : body \in StatementForms \cup {NestedIfForm}}
    \cup {Text(FunctionLexemes(IfElseLexemes(ifBody, elseBody))) :
             ifBody \in StatementForms, elseBody \in StatementForms \cup {NestedIfForm}}

\* texts with a closing brace that no block opened
StrayBraceTexts ==
    {<<"}">>, Text(FunctionLexemes(<<>>) \o <<"}">>), Text(FunctionLexemes(<<"}">>))}

ParseInit ==
    /\ SymIdle
    /\ OptIdle
    /\ GenIdle
    /\ RunIdle
    /\ expression \in SeqsUpTo(ExprChars, MaxExprLen) \cup ProgramTexts \cup StrayBraceTexts
    /\ currentTokenOrigin = [line |-> 1, column |-> 1]
    /\ tokens = <<>>
    /\ tokenizeResult = "idle"
    /\ parseResult = "idle"

\* getExpression applied to the tokens of the text; the result is "expression"
\* when it returns with every token read
GetExpression ==
    /\ parseResult = "idle"
    /\ \E tokenized \in {tokenize(expression, <<>>, currentTokenOrigin)} :
          /\ tokens' = tokenized.tokens
          /\ tokenizeResult' = tokenized.result
          /\ \E parsed \in {IF tokenized.result = "returned"
                            THEN getExpression(tokenized.tokens, 1)
                            ELSE SyntaxErrorAt(1, "Invalid symbol found")} :
                /\ ast' = parsed.node
                /\ parseResult' = IF parsed.thrown # "" THEN parsed.thrown
                                  ELSE IF parsed.pos <= Len(tokenized.tokens)
                                       THEN "tokens left"
                                       ELSE "expression"
    /\ UNCHANGED <<expression, currentTokenOrigin, optimizeRuns, symVars, genVars, runVars>>

\* buildASTRecursively(expression)
BuildASTRecursively ==
    /\ parseResult = "idle"
    /\ \E tokenized \in {tokenize(expression, <<>>, currentTokenOrigin)} :
          /\ tokens' = tokenized.tokens
          /\ tokenizeResult' = tokenized.result
          /\ \E parsed \in {IF tokenized.result = "returned"
                            THEN buildASTRecursively(tokenized.tokens)
                            ELSE SyntaxErrorAt(1, "Invalid symbol found")} :
                /\ ast' = parsed.node
                /\ parseResult' = IF parsed.thrown # "" THEN parsed.thrown ELSE "returned"
    /\ UNCHANGED <<expression, currentTokenOrigin, optimizeRuns, symVars, genVars, runVars>>

ParseNext ==
    \/ GetExpression
    \/ BuildASTRecursively

SpecParse == ParseInit /\ [][ParseNext]_vars

(***************************************************************************)
(* Claims about the parser                                                 *)
(***************************************************************************)
\* OperatorToken::precedence and leftAssociative of the operator classes
precedence(operatorType) ==
    CASE operatorType \in {"ADDITION", "SUBTRACTION"} -> 1
      [] operatorType \in {"MULTIPLICATION", "DIVISION"} -> 2
      [] operatorType \in {"ARITHMETIC_NEGATION", "UNARY_ADDITION"} -> 1000

leftAssociative(operatorType) ==
    operatorType \in {"ADDITION", "SUBTRACTION", "MULTIPLICATION", "DIVISION"}

IsUnaryOperator(token) ==
    token.type = "OPERATOR" /\ token.kind \in {"ARITHMETIC_NEGATION", "UNARY_ADDITION"}
IsBinaryOperator(token) ==
    token.type = "OPERATOR"
    /\ token.kind \in {"ADDITION", "SUBTRACTION", "MULTIPLICATION", "DIVISION"}

\* the tree the precedence table gives: an operand, then every binary operator
\* that binds at least as tightly as minPrecedence, each with a right operand
\* made of operators that bind more tightly (as tightly, if right-associative)
RECURSIVE ByPrecedence(_, _, _)
RECURSIVE ByPrecedenceOperators(_, _, _)
ByPrecedenceOperators(toks, left, minPrecedence) ==
    IF /\ left.thrown = ""
       /\ left.pos <= Len(toks)
       /\ IsBinaryOperator(toks[left.pos])
       /\ precedence(toks[left.pos].kind) >= minPrecedence
    THEN LET token == toks[left.pos]
             right == ByPrecedence(toks, left.pos + 1,
                                   precedence(token.kind)
                                   + (IF leftAssociative(token.kind) THEN 1 ELSE 0))
         IN  IF right.thrown # "" THEN right
             ELSE ByPrecedenceOperators(toks,
                      Parsed(At(OperatorNode(token.kind, <<left.node, right.node>>),
                                token.origin),
                             right.pos),
                      minPrecedence)
    ELSE left

ByPrecedence(toks, pos, minPrecedence) ==
    LET closed(inner) ==
            IF inner.thrown = "" /\ IsToken(toks, inner.pos, "PARENTHESIS", "CLOSE_ROUND")
            THEN Parsed(inner.node, inner.pos + 1)
            ELSE SyntaxErrorAt(pos, "no tree")
        operand ==
            IF pos > Len(toks) THEN SyntaxErrorAt(pos, "no tree")
            ELSE IF IsUnaryOperator(toks[pos])
                 THEN LET inner == ByPrecedence(toks, pos + 1, precedence(toks[pos].kind))
                      IN  IF inner.thrown # "" THEN inner
                          ELSE Parsed(At(OperatorNode(toks[pos].kind, <<inner.node>>),
                                         toks[pos].origin),
                                      inner.pos)
            ELSE IF IsToken(toks, pos, "PARENTHESIS", "OPEN_ROUND")
                 THEN closed(ByPrecedence(toks, pos + 1, 0))
            ELSE IF toks[pos].type = "ID" /\ IsToken(toks, pos + 1, "PARENTHESIS", "OPEN_ROUND")
                 THEN LET name == NameString(toks[pos].text)
                          called(arguments) ==
                              Parsed(At(FunctionCallNode(name, ArgumentsListNode(arguments)),
                                        toks[pos].origin), 0)
                      IN  IF IsToken(toks, pos + 2, "PARENTHESIS", "CLOSE_ROUND")
                          THEN [called(<<>>) EXCEPT !.pos = pos + 3]
                          ELSE LET argument == closed(ByPrecedence(toks, pos + 2, 0))
                               IN  IF argument.thrown # "" THEN argument
                                   ELSE [called(<<argument.node>>) EXCEPT !.pos = argument.pos]
            ELSE IF toks[pos].type = "ID"
                 THEN Parsed(At(VariableNode(NameString(toks[pos].text)), toks[pos].origin),
                             pos + 1)
            ELSE SyntaxErrorAt(pos, "no tree")
    IN  ByPrecedenceOperators(toks, operand, minPrecedence)

\* C15: the tree getExpression builds for a text that parses as an Expression
\* is the tree the precedence table gives: unary operators bind tighter than
\* * and /, these bind tighter than binary + and -, equal precedence
\* associates to the left. e-e-e is (e-e)-e, e+e*e is e+(e*e), -e*e is (-e)*e.
C15_PrecedenceAndAssociativity ==
    parseResult = "expression" =>
        /\ ByPrecedence(tokens, 1, 0) = Parsed(ast, Len(tokens) + 1)
        /\ expression = <<"e", "-", "e", "-", "e">> =>
              /\ isOperator(ast, "SUBTRACTION")
              /\ isOperator(ast.children[1], "SUBTRACTION")
              /\ ast.children[2].type = "VARIABLE_NODE"
        /\ expression = <<"e", "+", "e", "*", "e">> =>
              /\ isOperator(ast, "ADDITION")
              /\ ast.children[1].type = "VARIABLE_NODE"
              /\ isOperator(ast.children[2], "MULTIPLICATION")
        /\ expression = <<"-", "e", "*", "e">> =>
              /\ isOperator(ast, "MULTIPLICATION")
              /\ isOperator(ast.children[1], "ARITHMETIC_NEGATION")
              /\ ast.children[2].type = "VARIABLE_NODE"

\* e-e*e has been parsed as an expression
C15_Witness ==
    /\ parseResult = "expression"
    /\ expression = <<"e", "-", "e", "*", "e">>
    /\ isOperator(ast, "SUBTRACTION")

RECURSIVE StripOrigins(_)
StripOrigins(node) ==
    [node EXCEPT !.originPos = NoOrigin,
                 !.children = [i \in DOMAIN node.children |-> StripOrigins(node.children[i])]]

\* the bodies of every If, IfElse and While node of the tree are Block nodes
RECURSIVE BodiesAreBlocks(_)
BodiesAreBlocks(node) ==
    /\ node.type \in {"IF_NODE", "IF_ELSE_NODE", "WHILE_NODE"} =>
          \A i \in 2..Len(node.children) : node.children[i].type = "BLOCK_NODE"
    /\ \A i \in DOMAIN node.children : BodiesAreBlocks(node.children[i])

\* the tree of func f() { statement }
ProgramOf(statement) ==
    StatementsNode(<<FunctionDefinitionNode("f", ParametersListNode(<<>>),
                                            Body(<<statement>>))>>)

\* the body the statement form stands for as the body of a conditional or loop
BodyOf(form) ==
    IF form.node.type = "BLOCK_NODE" THEN form.node ELSE Body(<<form.node>>)

\* C16: in every tree the parser returns the bodies of If, IfElse and While
\* nodes are Block nodes; a body written as a single statement is
\* Block(Statements(statement)) and a body written as a block is that block,
\* not wrapped again.
C16_BodiesWrappedOnce ==
    parseResult = "returned" =>
        /\ BodiesAreBlocks(ast)
        /\ \A body \in StatementForms \cup {NestedIfForm} :
              /\ expression = Text(FunctionLexemes(IfLexemes(body))) =>
                    StripOrigins(ast) = ProgramOf(IfNode(ZeroLessThanOne, BodyOf(body)))
              /\ expression = Text(FunctionLexemes(WhileLexemes(body))) =>
                    StripOrigins(ast) = ProgramOf(WhileNode(ZeroLessThanOne, BodyOf(body)))
              /\ \A ifBody \in StatementForms :
                    expression = Text(FunctionLexemes(IfElseLexemes(ifBody, body))) =>
                        StripOrigins(ast) =
                            ProgramOf(IfElseNode(ZeroLessThanOne, BodyOf(ifBody), BodyOf(body)))

\* if (0<1) {e=1;} else e=1; has been parsed
C16_Witness ==
    /\ parseResult = "returned"
    /\ expression = Text(<<"func", " ", "f", "(", ")", "{", "if", "(", "0", "<", "1", ")",
                           "{", "e", "=", "1", ";", "}", "else", " ", "e", "=", "1", ";", "}">>)
    /\ ast.children[1].children[2].children[1].children[1].type = "IF_ELSE_NODE"

\* the call returned normally only with the cursor moved forward, within the tokens
Advances(toks, pos, parsed) ==
    parsed.thrown = "" => parsed.pos > pos /\ parsed.pos <= Len(toks) + 1

\* C30: on the tokens of every text, at every position, a call of getFactor,
\* getTerm, getExpression, getFunctionScopeStatement or getFunctionDefinition
\* (the recursive calls and the loop iterations of the parser) that returns
\* normally has moved the cursor forward by at least one token, and
\* buildASTRecursively either raises a SyntaxError or returns a Statements node
\* of function definitions with every token read.
C30_ParserAdvances ==
    (parseResult # "idle" /\ tokenizeResult = "returned") =>
        /\ \A pos \in 1..(Len(tokens) + 1) :
              /\ Advances(tokens, pos, getFactor(tokens, pos))
              /\ Advances(tokens, pos, getTerm(tokens, pos))
              /\ Advances(tokens, pos, getExpression(tokens, pos))
              /\ Advances(tokens, pos, getFunctionScopeStatement(tokens, pos))
              /\ IsToken(tokens, pos, "FUNC", "") =>
                     Advances(tokens, pos, getFunctionDefinition(tokens, pos))
        /\ \A root \in {buildASTRecursively(tokens)} :
              root.thrown = "" =>
                  /\ root.pos = Len(tokens) + 1
                  /\ root.node.type = "STATEMENTS_NODE"
                  /\ \A i \in DOMAIN root.node.children :
                        root.node.children[i].type = "FUNCTION_DEFINITION_NODE"

\* func f(){while(0<1)if(0<1)e=1;} has been read whole
C30_Witness ==
    /\ expression = Text(FunctionLexemes(WhileLexemes(NestedIfForm)))
    /\ parseResult = "returned"
    /\ buildASTRecursively(tokens).pos = Len(tokens) + 1
    /\ getFunctionScopeStatement(tokens, 6).pos = Len(tokens)

====
